---- MODULE Spec2Model ----
(***************************************************************************)
(* The FLUX social application: the server actions on posts, comments,     *)
(* likes, follows and notifications acting on the relational store, the    *)
(* feed and suggestion queries, and the like and follow buttons.           *)
(* Every `await prisma...` is one step of a call: between two steps of a   *)
(* call another request may run (SpecConc, SpecWidget); under the other    *)
(* specifications the calls do not overlap.  Every store access may be     *)
(* rejected by the store.                                                  *)
(***************************************************************************)
EXTENDS Integers, Sequences, FiniteSets, Bags, TLC

----------------------------------------------------------------------------
(* Bounds of the model *)

MaxRows == 4
NumCalls == 2
MaxPage == 3
MaxLimit == 2
MaxSuggestions == 2
MaxClicks == 2

(* Identities.  auth() yields a user id or null (NoUser).  Unregistered is  *)
(* an id for which the User table holds no row.                             *)
Users == {"alice", "bob"}
NoUser == "null"
Unregistered == "nobody"
Callers == Users \cup {NoUser}
UserArgs == Users \cup {Unregistered}
Calls == 1..NumCalls

(* The User table of the runs that ask for suggestions: the users above *)
(* and two more members.                                                *)
Members == Users \cup {"carol", "dave"}

(* A content string, run-length encoded: `lead` whitespace characters, then *)
(* `core` characters that start and end with a non-blank, then `trail`      *)
(* whitespace characters.                                                   *)
Content(lead, core, trail) == [lead |-> lead, core |-> core, trail |-> trail]
Length(s) == s.lead + s.core + s.trail
Trim(s) == Content(0, s.core, 0)
NoContent == Content(0, 0, 0)
Contents == {Content(0, 1, 0), Content(1, 1, 1), Content(1, 0, 0), NoContent}

MaxPostLength == 280

(* The contents submitted as posts: empty, blank, short, and of lengths    *)
(* around the limit, bare or with a leading or trailing blank.             *)
PostContents ==
    {Content(lead, core, trail) :
        lead \in {0, 1}, trail \in {0, 1},
        core \in {0, 1, MaxPostLength - 1, MaxPostLength, MaxPostLength + 1}}

VARIABLES
    posts,          \* Post rows
    likes,          \* Like rows (a bag: the table, whatever its constraints)
    follows,        \* Follows rows (a bag)
    comments,       \* Comment rows
    notifications,  \* Notification rows
    nextId,         \* ids handed out so far, per table
    calls,          \* the server-action invocations in progress
    ui              \* the state of the widgets shown in the browser

vars == <<posts, likes, follows, comments, notifications, nextId, calls, ui>>
tables == <<posts, likes, follows, comments, notifications, nextId>>

Store == [posts |-> posts, likes |-> likes, follows |-> follows,
          comments |-> comments, notifications |-> notifications]
NoStore == [posts |-> {}, likes |-> EmptyBag, follows |-> EmptyBag,
            comments |-> {}, notifications |-> {}]

----------------------------------------------------------------------------
(* Rows *)

LikeRow(u, p) == [userId |-> u, postId |-> p]
FollowRow(u, v) == [followerId |-> u, followingId |-> v]
PostRow(id, u, s) == [id |-> id, authorId |-> u, content |-> s]
CommentRow(id, p, u, s) == [id |-> id, postId |-> p, authorId |-> u, content |-> s]
NotificationRow(id, r, a, t, p, k) ==
    [id |-> id, userId |-> r, creatorId |-> a, type |-> t, postId |-> p,
     commentId |-> k, read |-> FALSE]

PostExists(p) == \E r \in posts : r.id = p
PostById(p) == CHOOSE r \in posts : r.id = p

----------------------------------------------------------------------------
(* Results of a call: a returned value or a thrown Error.  Every action's   *)
(* catch block rethrows `Failed to <op>: <message>`.                        *)

NoResult == [kind |-> "none", success |-> FALSE, message |-> ""]
Return(ok, msg) == [kind |-> "return", success |-> ok, message |-> msg]
Throw(msg) == [kind |-> "throw", success |-> FALSE, message |-> msg]

StoreError == "store error"
UniqueViolation == "Unique constraint failed"
ForeignKeyViolation == "Foreign key constraint failed"
RecordNotFound == "Record to delete does not exist"

Idle == [op |-> "none", pc |-> "idle", caller |-> NoUser, postId |-> 0,
         userArg |-> NoUser, notifId |-> 0, content |-> NoContent,
         author |-> NoUser, commentId |-> 0, faulted |-> FALSE,
         page |-> 0, limit |-> 0,
         result |-> NoResult, value |-> <<>>, pre |-> NoStore]

Invoke(op, u) == [Idle EXCEPT !.op = op, !.caller = u, !.pre = Store]
Done(call, res) == [call EXCEPT !.pc = "done", !.result = res]
Faulted(call) == [call EXCEPT !.faulted = TRUE]

InFlight == {c \in Calls : calls[c].pc \notin {"idle", "done"}}
NoOtherCall == \A c \in Calls : calls[c].pc = "idle"

(* The store holds at most MaxRows rows and hands out at most MaxRows ids: *)
(* an insert waits for room.                                              *)
RowCount ==
    Cardinality(posts) + BagCardinality(likes) + BagCardinality(follows)
        + Cardinality(comments) + Cardinality(notifications)
IdsIssued == nextId.post + nextId.comment + nextId.notification
HasRoom == RowCount < MaxRows /\ IdsIssued < MaxRows

(* The ids a caller may pass: those of the rows ever created and one that *)
(* no row ever had.                                                        *)
PostArgs == 1..(nextId.post + 1)
NotificationArgs == 1..(nextId.notification + 1)

----------------------------------------------------------------------------
(* Store primitives *)

(* After like.create / follows.create on a composite key that is present:   *)
(* the composite unique key rejects the insert.                             *)
LikeKeyTaken(u, p) == BagIn(LikeRow(u, p), likes)
FollowKeyTaken(u, v) == BagIn(FollowRow(u, v), follows)

----------------------------------------------------------------------------
(* createPost(content) *)

(* No content passes for too long. *)
TooLong_Never(s) == FALSE

(* content.length > 280 *)
TooLong(s) == Length(s) > MaxPostLength

CreatePost(c, u, s) ==
    /\ calls[c].pc = "idle"
    /\ \E fault \in BOOLEAN :
        LET call == [Invoke("createPost", u) EXCEPT !.content = s] IN
        IF u = NoUser
        THEN /\ calls' = [calls EXCEPT ![c] =
                    Done(call, Throw("Unauthorized: Must be logged in to create post"))]
             /\ UNCHANGED tables
        ELSE IF Trim(s).core = 0
        THEN /\ calls' = [calls EXCEPT ![c] =
                    Done(call, Throw("Post content cannot be empty"))]
             /\ UNCHANGED tables
        ELSE IF TooLong(s)
        THEN /\ calls' = [calls EXCEPT ![c] =
                    Done(call, Throw("Post must be 280 characters or less"))]
             /\ UNCHANGED tables
        ELSE IF fault
        THEN /\ calls' = [calls EXCEPT ![c] = Done(Faulted(call), Throw(StoreError))]
             /\ UNCHANGED tables
        ELSE /\ HasRoom
             /\ posts' = posts \cup {PostRow(nextId.post + 1, u, Trim(s))}
             /\ nextId' = [nextId EXCEPT !.post = @ + 1]
             /\ calls' = [calls EXCEPT ![c] =
                    Done([call EXCEPT !.postId = nextId.post + 1], Return(TRUE, "post"))]
             /\ UNCHANGED <<likes, follows, comments, notifications>>

----------------------------------------------------------------------------
(* likePost(postId) *)

ExistingLike_Never(u, p) == FALSE

ExistingLike(u, p) == BagIn(LikeRow(u, p), likes)

NotifiesAuthor_Always(author, u) == TRUE

NotifiesAuthor(author, u) == author # u

ExistingNotification_Never(r, a, p) == FALSE

ExistingNotification(r, a, p) ==
    \E n \in notifications :
        n.userId = r /\ n.creatorId = a /\ n.type = "LIKE" /\ n.postId = p

LikePostBegin(c, u, p) ==
    /\ calls[c].pc = "idle"
    /\ UNCHANGED tables
    /\ \E fault \in BOOLEAN :
        LET call == [Invoke("likePost", u) EXCEPT !.postId = p] IN
        calls' = [calls EXCEPT ![c] =
            IF u = NoUser
            THEN Done(call, Throw("Unauthorized: Must be logged in to like"))
            ELSE IF fault THEN Done(Faulted(call), Throw(StoreError))
            ELSE IF ~PostExists(p) THEN Done(call, Throw("Post not found"))
            ELSE [call EXCEPT !.pc = "findLike", !.author = PostById(p).authorId]]

LikePostFindLike(c) ==
    /\ calls[c].op = "likePost" /\ calls[c].pc = "findLike"
    /\ UNCHANGED tables
    /\ \E fault \in BOOLEAN :
        calls' = [calls EXCEPT ![c] =
            IF fault THEN Done(Faulted(@), Throw(StoreError))
            ELSE IF ExistingLike(@.caller, @.postId)
            THEN Done(@, Return(FALSE, "Post already liked"))
            ELSE [@ EXCEPT !.pc = "createLike"]]

LikePostCreateLike(c) ==
    LET call == calls[c] IN
    /\ call.op = "likePost" /\ call.pc = "createLike"
    /\ UNCHANGED <<posts, follows, comments, notifications, nextId>>
    /\ \E fault \in BOOLEAN :
        IF fault
        THEN /\ calls' = [calls EXCEPT ![c] = Done(Faulted(call), Throw(StoreError))]
             /\ UNCHANGED likes
        ELSE IF LikeKeyTaken(call.caller, call.postId)
        THEN /\ calls' = [calls EXCEPT ![c] = Done(call, Throw(UniqueViolation))]
             /\ UNCHANGED likes
        ELSE IF ~PostExists(call.postId)
        THEN /\ calls' = [calls EXCEPT ![c] = Done(call, Throw(ForeignKeyViolation))]
             /\ UNCHANGED likes
        ELSE /\ HasRoom
             /\ likes' = likes (+) SetToBag({LikeRow(call.caller, call.postId)})
             /\ calls' = [calls EXCEPT ![c] =
                    IF NotifiesAuthor(call.author, call.caller)
                    THEN [call EXCEPT !.pc = "findNotification"]
                    ELSE Done(call, Return(TRUE, "like"))]

LikePostFindNotification(c) ==
    /\ calls[c].op = "likePost" /\ calls[c].pc = "findNotification"
    /\ UNCHANGED tables
    /\ \E fault \in BOOLEAN :
        calls' = [calls EXCEPT ![c] =
            IF fault THEN Done(Faulted(@), Throw(StoreError))
            ELSE IF ExistingNotification(@.author, @.caller, @.postId)
            THEN Done(@, Return(TRUE, "like"))
            ELSE [@ EXCEPT !.pc = "createNotification"]]

LikePostCreateNotification_Skipped(c) ==
    /\ calls[c].op = "likePost" /\ calls[c].pc = "createNotification"
    /\ calls' = [calls EXCEPT ![c] = Done(@, Return(TRUE, "like"))]
    /\ UNCHANGED tables

LikePostCreateNotification(c) ==
    LET call == calls[c] IN
    /\ call.op = "likePost" /\ call.pc = "createNotification"
    /\ UNCHANGED <<posts, likes, follows, comments>>
    /\ \E fault \in BOOLEAN :
        IF fault
        THEN /\ calls' = [calls EXCEPT ![c] = Done(Faulted(call), Throw(StoreError))]
             /\ UNCHANGED <<notifications, nextId>>
        ELSE /\ HasRoom
             /\ notifications' = notifications \cup
                    {NotificationRow(nextId.notification + 1, call.author, call.caller,
                                     "LIKE", call.postId, 0)}
             /\ nextId' = [nextId EXCEPT !.notification = @ + 1]
             /\ calls' = [calls EXCEPT ![c] = Done(call, Return(TRUE, "like"))]

----------------------------------------------------------------------------
(* unlikePost(postId) *)

(* prisma.like.delete rejects when the store fails and when no row has the  *)
(* key; `.catch(() => null)` turns every rejection into null.               *)
UnlikeDeleteRejected(u, p, fault) == fault \/ ~BagIn(LikeRow(u, p), likes)

UnlikeOutcome_Rethrow(rejected) ==
    IF rejected THEN Throw(RecordNotFound)
    ELSE Return(TRUE, "Post unliked")

UnlikeOutcome(rejected) ==
    IF rejected THEN Return(FALSE, "Post not liked")
    ELSE Return(TRUE, "Post unliked")

(* The Like table without any row of the post. *)
WithoutLike_OfPost(u, p) ==
    LET kept == {r \in BagToSet(likes) : r.postId # p}
    IN  [r \in kept |-> CopiesIn(r, likes)]

(* prisma.like.delete({where: {userId_postId}}): the table without the row. *)
WithoutLike(u, p) == likes (-) SetToBag({LikeRow(u, p)})

UnlikePost(c, u, p) ==
    /\ calls[c].pc = "idle"
    /\ UNCHANGED <<posts, follows, comments, notifications, nextId>>
    /\ \E fault \in BOOLEAN :
        LET call == [Invoke("unlikePost", u) EXCEPT !.postId = p, !.faulted = fault]
            rejected == UnlikeDeleteRejected(u, p, fault) IN
        IF u = NoUser
        THEN /\ calls' = [calls EXCEPT ![c] =
                    Done([call EXCEPT !.faulted = FALSE],
                         Throw("Unauthorized: Must be logged in"))]
             /\ UNCHANGED likes
        ELSE /\ likes' = IF rejected THEN likes ELSE WithoutLike(u, p)
             /\ calls' = [calls EXCEPT ![c] = Done(call, UnlikeOutcome(rejected))]

----------------------------------------------------------------------------
(* followUser(followingId) *)

IsSelfFollow_Never(u, v) == FALSE

IsSelfFollow(u, v) == u = v

ExistingFollow_Never(u, v) == FALSE

ExistingFollow(u, v) == BagIn(FollowRow(u, v), follows)

FollowUserBegin(c, u, v) ==
    /\ calls[c].pc = "idle"
    /\ UNCHANGED tables
    /\ \E fault \in BOOLEAN :
        LET call == [Invoke("followUser", u) EXCEPT !.userArg = v] IN
        calls' = [calls EXCEPT ![c] =
            IF u = NoUser
            THEN Done(call, Throw("Unauthorized: Must be logged in to follow"))
            ELSE IF IsSelfFollow(u, v)
            THEN Done(call, Throw("You cannot follow yourself"))
            ELSE IF fault THEN Done(Faulted(call), Throw(StoreError))
            ELSE IF v \notin Users THEN Done(call, Throw("User not found"))
            ELSE [call EXCEPT !.pc = "findFollow"]]

FollowUserFindFollow(c) ==
    /\ calls[c].op = "followUser" /\ calls[c].pc = "findFollow"
    /\ UNCHANGED tables
    /\ \E fault \in BOOLEAN :
        calls' = [calls EXCEPT ![c] =
            IF fault THEN Done(Faulted(@), Throw(StoreError))
            ELSE IF ExistingFollow(@.caller, @.userArg)
            THEN Done(@, Return(FALSE, "Already following user"))
            ELSE [@ EXCEPT !.pc = "createFollow"]]

FollowUserCreateFollow(c) ==
    LET call == calls[c] IN
    /\ call.op = "followUser" /\ call.pc = "createFollow"
    /\ UNCHANGED <<posts, likes, comments, notifications, nextId>>
    /\ \E fault \in BOOLEAN :
        IF fault
        THEN /\ calls' = [calls EXCEPT ![c] = Done(Faulted(call), Throw(StoreError))]
             /\ UNCHANGED follows
        ELSE IF FollowKeyTaken(call.caller, call.userArg)
        THEN /\ calls' = [calls EXCEPT ![c] = Done(call, Throw(UniqueViolation))]
             /\ UNCHANGED follows
        ELSE /\ HasRoom
             /\ follows' = follows (+) SetToBag({FollowRow(call.caller, call.userArg)})
             /\ calls' = [calls EXCEPT ![c] = [call EXCEPT !.pc = "createNotification"]]

(* The same inserting no second FOLLOW notification for a pair. *)
FollowUserCreateNotification_Deduplicated(c) ==
    LET call == calls[c]
        known == \E n \in notifications :
                    /\ n.type = "FOLLOW"
                    /\ n.userId = call.userArg /\ n.creatorId = call.caller
    IN
    /\ call.op = "followUser" /\ call.pc = "createNotification"
    /\ UNCHANGED <<posts, likes, follows, comments>>
    /\ IF known
       THEN /\ UNCHANGED <<notifications, nextId>>
            /\ calls' = [calls EXCEPT ![c] = Done(call, Return(TRUE, "follow"))]
       ELSE /\ HasRoom
            /\ notifications' = notifications \cup
                   {NotificationRow(nextId.notification + 1, call.userArg, call.caller,
                                    "FOLLOW", 0, 0)}
            /\ nextId' = [nextId EXCEPT !.notification = @ + 1]
            /\ calls' = [calls EXCEPT ![c] = Done(call, Return(TRUE, "follow"))]

FollowUserCreateNotification(c) ==
    LET call == calls[c] IN
    /\ call.op = "followUser" /\ call.pc = "createNotification"
    /\ UNCHANGED <<posts, likes, follows, comments>>
    /\ \E fault \in BOOLEAN :
        IF fault
        THEN /\ calls' = [calls EXCEPT ![c] = Done(Faulted(call), Throw(StoreError))]
             /\ UNCHANGED <<notifications, nextId>>
        ELSE /\ HasRoom
             /\ notifications' = notifications \cup
                    {NotificationRow(nextId.notification + 1, call.userArg, call.caller,
                                     "FOLLOW", 0, 0)}
             /\ nextId' = [nextId EXCEPT !.notification = @ + 1]
             /\ calls' = [calls EXCEPT ![c] = Done(call, Return(TRUE, "follow"))]

----------------------------------------------------------------------------
(* unfollowUser(followingId) *)

UnfollowDeleteRejected(u, v, fault) == fault \/ ~BagIn(FollowRow(u, v), follows)

UnfollowUserBegin(c, u, v) ==
    /\ calls[c].pc = "idle"
    /\ UNCHANGED <<posts, likes, comments, notifications, nextId>>
    /\ \E fault \in BOOLEAN :
        LET call == [Invoke("unfollowUser", u) EXCEPT !.userArg = v, !.faulted = fault]
            rejected == UnfollowDeleteRejected(u, v, fault) IN
        IF u = NoUser
        THEN /\ calls' = [calls EXCEPT ![c] =
                    Done([call EXCEPT !.faulted = FALSE],
                         Throw("Unauthorized: Must be logged in"))]
             /\ UNCHANGED follows
        ELSE IF rejected
        THEN /\ calls' = [calls EXCEPT ![c] =
                    Done(call, Return(FALSE, "Not following user"))]
             /\ UNCHANGED follows
        ELSE /\ follows' = follows (-) SetToBag({FollowRow(u, v)})
             /\ calls' = [calls EXCEPT ![c] = [call EXCEPT !.pc = "findUser"]]

UnfollowUserFindUser(c) ==
    /\ calls[c].op = "unfollowUser" /\ calls[c].pc = "findUser"
    /\ UNCHANGED tables
    /\ \E fault \in BOOLEAN :
        calls' = [calls EXCEPT ![c] =
            IF fault THEN Done(Faulted(@), Throw(StoreError))
            ELSE Done(@, Return(TRUE, "User unfollowed"))]

----------------------------------------------------------------------------
(* createComment(postId, content) *)

CreateCommentBegin(c, u, p, s) ==
    /\ calls[c].pc = "idle"
    /\ UNCHANGED tables
    /\ \E fault \in BOOLEAN :
        LET call == [Invoke("createComment", u) EXCEPT !.postId = p, !.content = s] IN
        calls' = [calls EXCEPT ![c] =
            IF u = NoUser
            THEN Done(call, Throw("Unauthorized: Must be logged in to comment"))
            ELSE IF Trim(s).core = 0
            THEN Done(call, Throw("Comment cannot be empty"))
            ELSE IF fault THEN Done(Faulted(call), Throw(StoreError))
            ELSE IF ~PostExists(p) THEN Done(call, Throw("Post not found"))
            ELSE [call EXCEPT !.pc = "createComment", !.author = PostById(p).authorId]]

CreateCommentCreate(c) ==
    LET call == calls[c] IN
    /\ call.op = "createComment" /\ call.pc = "createComment"
    /\ UNCHANGED <<posts, likes, follows, notifications>>
    /\ \E fault \in BOOLEAN :
        IF fault
        THEN /\ calls' = [calls EXCEPT ![c] = Done(Faulted(call), Throw(StoreError))]
             /\ UNCHANGED <<comments, nextId>>
        ELSE IF ~PostExists(call.postId)
        THEN /\ calls' = [calls EXCEPT ![c] = Done(call, Throw(ForeignKeyViolation))]
             /\ UNCHANGED <<comments, nextId>>
        ELSE /\ HasRoom
             /\ comments' = comments \cup
                    {CommentRow(nextId.comment + 1, call.postId, call.caller,
                                Trim(call.content))}
             /\ nextId' = [nextId EXCEPT !.comment = @ + 1]
             /\ calls' = [calls EXCEPT ![c] =
                    IF NotifiesAuthor(call.author, call.caller)
                    THEN [call EXCEPT !.pc = "createNotification",
                                      !.commentId = nextId.comment + 1]
                    ELSE Done([call EXCEPT !.commentId = nextId.comment + 1],
                              Return(TRUE, "comment"))]

CreateCommentCreateNotification(c) ==
    LET call == calls[c] IN
    /\ call.op = "createComment" /\ call.pc = "createNotification"
    /\ UNCHANGED <<posts, likes, follows, comments>>
    /\ \E fault \in BOOLEAN :
        IF fault
        THEN /\ calls' = [calls EXCEPT ![c] = Done(Faulted(call), Throw(StoreError))]
             /\ UNCHANGED <<notifications, nextId>>
        ELSE /\ HasRoom
             /\ notifications' = notifications \cup
                    {NotificationRow(nextId.notification + 1, call.author, call.caller,
                                     "COMMENT", call.postId, call.commentId)}
             /\ nextId' = [nextId EXCEPT !.notification = @ + 1]
             /\ calls' = [calls EXCEPT ![c] = Done(call, Return(TRUE, "comment"))]

----------------------------------------------------------------------------
(* markNotificationAsRead(notificationId) *)

NotificationExists(n) == \E r \in notifications : r.id = n
NotificationById(n) == CHOOSE r \in notifications : r.id = n

MarkNotificationAsReadBegin(c, u, n) ==
    /\ calls[c].pc = "idle"
    /\ UNCHANGED tables
    /\ \E fault \in BOOLEAN :
        LET call == [Invoke("markNotificationAsRead", u) EXCEPT !.notifId = n] IN
        calls' = [calls EXCEPT ![c] =
            IF u = NoUser
            THEN Done(call, Throw("Unauthorized: Must be logged in"))
            ELSE IF fault THEN Done(Faulted(call), Throw(StoreError))
            ELSE IF ~NotificationExists(n)
            THEN Done(call, Throw("Notification not found"))
            ELSE IF NotificationById(n).userId # u
            THEN Done(call, Throw("Unauthorized: You can only update your own notifications"))
            ELSE [call EXCEPT !.pc = "update"]]

(* The same flipping the flag instead of setting it. *)
MarkNotificationAsReadUpdate_Toggle(c) ==
    /\ calls[c].op = "markNotificationAsRead" /\ calls[c].pc = "update"
    /\ notifications' =
            {IF r.id = calls[c].notifId THEN [r EXCEPT !.read = ~@] ELSE r :
                r \in notifications}
    /\ calls' = [calls EXCEPT ![c] = Done(calls[c], Return(TRUE, "notification"))]
    /\ UNCHANGED <<posts, likes, follows, comments, nextId>>

MarkNotificationAsReadUpdate(c) ==
    LET call == calls[c] IN
    /\ call.op = "markNotificationAsRead" /\ call.pc = "update"
    /\ UNCHANGED <<posts, likes, follows, comments, nextId>>
    /\ \E fault \in BOOLEAN :
        IF fault
        THEN /\ calls' = [calls EXCEPT ![c] = Done(Faulted(call), Throw(StoreError))]
             /\ UNCHANGED notifications
        ELSE IF ~NotificationExists(call.notifId)
        THEN /\ calls' = [calls EXCEPT ![c] = Done(call, Throw(RecordNotFound))]
             /\ UNCHANGED notifications
        ELSE /\ notifications' =
                    {IF r.id = call.notifId THEN [r EXCEPT !.read = TRUE] ELSE r :
                        r \in notifications}
             /\ calls' = [calls EXCEPT ![c] = Done(call, Return(TRUE, "notification"))]

----------------------------------------------------------------------------
(* deletePost(postId) *)

(* Every caller passes for the owner. *)
NotOwner_Never(owner, u) == FALSE

(* post.author.clerkId !== userId *)
NotOwner(owner, u) == owner # u

(* The rows that go with a deleted Post: the schema cascades the delete to  *)
(* the Comment and Like rows of the post.                                   *)
CascadeComments(p) == {r \in comments : r.postId # p}
CascadeLikes(p) ==
    LET kept == {r \in BagToSet(likes) : r.postId # p}
    IN  [r \in kept |-> CopiesIn(r, likes)]

DeletePostBegin(c, u, p) ==
    /\ calls[c].pc = "idle"
    /\ UNCHANGED tables
    /\ \E fault \in BOOLEAN :
        LET call == [Invoke("deletePost", u) EXCEPT !.postId = p] IN
        calls' = [calls EXCEPT ![c] =
            IF u = NoUser
            THEN Done(call, Throw("Unauthorized: Must be logged in"))
            ELSE IF fault THEN Done(Faulted(call), Throw(StoreError))
            ELSE IF ~PostExists(p)
            THEN Done(call, Throw("Post not found"))
            ELSE IF NotOwner(PostById(p).authorId, u)
            THEN Done(call, Throw("Unauthorized: You can only delete your own posts"))
            ELSE [call EXCEPT !.pc = "delete", !.author = PostById(p).authorId]]

(* The same removing the Post row alone. *)
DeletePostDelete_PostOnly(c) ==
    /\ calls[c].op = "deletePost" /\ calls[c].pc = "delete"
    /\ posts' = {r \in posts : r.id # calls[c].postId}
    /\ calls' = [calls EXCEPT ![c] =
            Done(calls[c], Return(TRUE, "Post deleted successfully"))]
    /\ UNCHANGED <<likes, follows, comments, notifications, nextId>>

DeletePostDelete(c) ==
    LET call == calls[c] IN
    /\ call.op = "deletePost" /\ call.pc = "delete"
    /\ UNCHANGED <<follows, notifications, nextId>>
    /\ \E fault \in BOOLEAN :
        IF fault
        THEN /\ calls' = [calls EXCEPT ![c] = Done(Faulted(call), Throw(StoreError))]
             /\ UNCHANGED <<posts, likes, comments>>
        ELSE IF ~PostExists(call.postId)
        THEN /\ calls' = [calls EXCEPT ![c] = Done(call, Throw(RecordNotFound))]
             /\ UNCHANGED <<posts, likes, comments>>
        ELSE /\ posts' = {r \in posts : r.id # call.postId}
             /\ comments' = CascadeComments(call.postId)
             /\ likes' = CascadeLikes(call.postId)
             /\ calls' = [calls EXCEPT ![c] =
                    Done(call, Return(TRUE, "Post deleted successfully"))]

----------------------------------------------------------------------------
(* deleteComment(commentId) *)

CommentExists(k) == \E r \in comments : r.id = k
CommentById(k) == CHOOSE r \in comments : r.id = k
CommentArgs == 1..(nextId.comment + 1)

DeleteCommentBegin(c, u, k) ==
    /\ calls[c].pc = "idle"
    /\ UNCHANGED tables
    /\ \E fault \in BOOLEAN :
        LET call == [Invoke("deleteComment", u) EXCEPT !.commentId = k] IN
        calls' = [calls EXCEPT ![c] =
            IF u = NoUser
            THEN Done(call, Throw("Unauthorized: Must be logged in"))
            ELSE IF fault THEN Done(Faulted(call), Throw(StoreError))
            ELSE IF ~CommentExists(k)
            THEN Done(call, Throw("Comment not found"))
            ELSE IF NotOwner(CommentById(k).authorId, u)
            THEN Done(call, Throw("Unauthorized: You can only delete your own comments"))
            ELSE [call EXCEPT !.pc = "delete", !.author = CommentById(k).authorId,
                              !.postId = CommentById(k).postId]]

DeleteCommentDelete(c) ==
    LET call == calls[c] IN
    /\ call.op = "deleteComment" /\ call.pc = "delete"
    /\ UNCHANGED <<posts, likes, follows, notifications, nextId>>
    /\ \E fault \in BOOLEAN :
        IF fault
        THEN /\ calls' = [calls EXCEPT ![c] = Done(Faulted(call), Throw(StoreError))]
             /\ UNCHANGED comments
        ELSE IF ~CommentExists(call.commentId)
        THEN /\ calls' = [calls EXCEPT ![c] = Done(call, Throw(RecordNotFound))]
             /\ UNCHANGED comments
        ELSE /\ comments' = {r \in comments : r.id # call.commentId}
             /\ calls' = [calls EXCEPT ![c] =
                    Done(call, Return(TRUE, "Comment deleted successfully"))]

----------------------------------------------------------------------------
(* markAllNotificationsAsRead() *)

(* The same without the authentication check. *)
MarkAllNotificationsAsRead_NoAuthCheck(c, u) ==
    /\ calls[c].pc = "idle"
    /\ UNCHANGED <<posts, likes, follows, comments, nextId>>
    /\ notifications' =
            {IF r.userId = u THEN [r EXCEPT !.read = TRUE] ELSE r : r \in notifications}
    /\ calls' = [calls EXCEPT ![c] =
            Done(Invoke("markAllNotificationsAsRead", u), Return(TRUE, "Marked"))]

MarkAllNotificationsAsRead(c, u) ==
    /\ calls[c].pc = "idle"
    /\ UNCHANGED <<posts, likes, follows, comments, nextId>>
    /\ \E fault \in BOOLEAN :
        LET call == Invoke("markAllNotificationsAsRead", u) IN
        IF u = NoUser
        THEN /\ calls' = [calls EXCEPT ![c] =
                    Done(call, Throw("Unauthorized: Must be logged in"))]
             /\ UNCHANGED notifications
        ELSE IF fault
        THEN /\ calls' = [calls EXCEPT ![c] = Done(Faulted(call), Throw(StoreError))]
             /\ UNCHANGED notifications
        ELSE /\ notifications' =
                    {IF r.userId = u THEN [r EXCEPT !.read = TRUE] ELSE r :
                        r \in notifications}
             /\ calls' = [calls EXCEPT ![c] = Done(call, Return(TRUE, "Marked"))]

----------------------------------------------------------------------------
(* deleteNotification(notificationId) *)

DeleteNotificationBegin(c, u, n) ==
    /\ calls[c].pc = "idle"
    /\ UNCHANGED tables
    /\ \E fault \in BOOLEAN :
        LET call == [Invoke("deleteNotification", u) EXCEPT !.notifId = n] IN
        calls' = [calls EXCEPT ![c] =
            IF u = NoUser
            THEN Done(call, Throw("Unauthorized: Must be logged in"))
            ELSE IF fault THEN Done(Faulted(call), Throw(StoreError))
            ELSE IF ~NotificationExists(n)
            THEN Done(call, Throw("Notification not found"))
            ELSE IF NotOwner(NotificationById(n).userId, u)
            THEN Done(call, Throw("Unauthorized"))
            ELSE [call EXCEPT !.pc = "delete"]]

DeleteNotificationDelete(c) ==
    LET call == calls[c] IN
    /\ call.op = "deleteNotification" /\ call.pc = "delete"
    /\ UNCHANGED <<posts, likes, follows, comments, nextId>>
    /\ \E fault \in BOOLEAN :
        IF fault
        THEN /\ calls' = [calls EXCEPT ![c] = Done(Faulted(call), Throw(StoreError))]
             /\ UNCHANGED notifications
        ELSE IF ~NotificationExists(call.notifId)
        THEN /\ calls' = [calls EXCEPT ![c] = Done(call, Throw(RecordNotFound))]
             /\ UNCHANGED notifications
        ELSE /\ notifications' = {r \in notifications : r.id # call.notifId}
             /\ calls' = [calls EXCEPT ![c] = Done(call, Return(TRUE, "notification"))]

----------------------------------------------------------------------------
(* Queries.  A query returns a value: rows in `orderBy createdAt desc`     *)
(* order, which is the order of descending id, ids being handed out in     *)
(* creation order.                                                         *)

Answer(call, v) == Done([call EXCEPT !.value = v], Return(TRUE, "value"))

RECURSIVE NewestFirst(_)
NewestFirst(rows) ==
    IF rows = {} THEN <<>>
    ELSE LET newest == CHOOSE r \in rows : \A q \in rows : q.id <= r.id
         IN  <<newest>> \o NewestFirst(rows \ {newest})

(* getFeedPosts(page, limit) *)

(* hasMore of a page that is not the last one, and of every page. *)
HasMore_Inclusive(offset, limit, total) == offset + limit <= total

(* hasMore: offset + limit < total *)
HasMore(offset, limit, total) == offset + limit < total

(* findMany({orderBy: createdAt desc, take: limit, skip: offset}) *)
Page(rows, offset, limit) ==
    LET all == NewestFirst(rows)
        last == IF offset + limit < Len(all) THEN offset + limit ELSE Len(all)
    IN  SubSeq(all, offset + 1, last)

GetFeedPostsBegin(c, page, limit) ==
    /\ calls[c].pc = "idle"
    /\ UNCHANGED tables
    /\ \E fault \in BOOLEAN :
        LET call == [Invoke("getFeedPosts", NoUser) EXCEPT !.page = page, !.limit = limit]
            offset == (page - 1) * limit
        IN  calls' = [calls EXCEPT ![c] =
                IF fault THEN Done(Faulted(call), Throw(StoreError))
                ELSE [call EXCEPT !.pc = "count", !.value = Page(posts, offset, limit)]]

GetFeedPostsCount(c) ==
    LET call == calls[c]
        offset == (call.page - 1) * call.limit
        total == Cardinality(posts)
    IN  /\ call.op = "getFeedPosts" /\ call.pc = "count"
        /\ UNCHANGED tables
        /\ \E fault \in BOOLEAN :
            calls' = [calls EXCEPT ![c] =
                IF fault THEN Done(Faulted(call), Throw(StoreError))
                ELSE Answer(call, [posts |-> call.value, total |-> total,
                                   page |-> call.page, limit |-> call.limit,
                                   hasMore |-> HasMore(offset, call.limit, total)])]

----------------------------------------------------------------------------
(* getSuggestedUsers(limit) *)

(* User.followers of x: the followers of the Follows rows that follow x. *)
Followers(x) == {r.followerId : r \in {q \in BagToSet(follows) : q.followingId = x}}

(* followers: { none: { followerId: userId } } fails for every user. *)
NotFollowedBy_Anyone(x, u) == TRUE

(* followers: { none: { followerId: userId } } *)
NotFollowedBy(x, u) == u \notin Followers(x)

(* take: limit, of rows in no stated order: any `limit` of them, or all. *)
Take(rows, limit) ==
    {picked \in SUBSET rows :
        Cardinality(picked) =
            IF Cardinality(rows) < limit THEN Cardinality(rows) ELSE limit}

(* take: limit, orderBy followers _count desc *)
MostFollowed(limit) ==
    {picked \in Take(Members, limit) :
        \A x \in picked, y \in Members \ picked :
            Cardinality(Followers(x)) >= Cardinality(Followers(y))}

GetSuggestedUsersBegin(c, u, limit) ==
    /\ calls[c].pc = "idle"
    /\ UNCHANGED tables
    /\ \E fault \in BOOLEAN, popular \in MostFollowed(limit) :
        LET call == [Invoke("getSuggestedUsers", u) EXCEPT !.limit = limit]
            followingIds == {r.followingId :
                                r \in {q \in BagToSet(follows) : q.followerId = u}}
        IN  calls' = [calls EXCEPT ![c] =
                IF fault THEN Done(Faulted(call), Throw(StoreError))
                ELSE IF u = NoUser THEN Answer(call, popular)
                ELSE [call EXCEPT !.pc = "findUsers", !.value = followingIds]]

GetSuggestedUsersFind(c) ==
    LET call == calls[c]
        followingIds == call.value
        among == IF followingIds # {} THEN followingIds ELSE {""}
        suggested ==
            {x \in Members :
                /\ x # call.caller
                /\ NotFollowedBy(x, call.caller)
                /\ Followers(x) \cap among # {}}
    IN  /\ call.op = "getSuggestedUsers" /\ call.pc = "findUsers"
        /\ UNCHANGED tables
        /\ \E fault \in BOOLEAN, picked \in Take(suggested, call.limit) :
            calls' = [calls EXCEPT ![c] =
                IF fault THEN Done(Faulted(call), Throw(StoreError))
                ELSE Answer(call, picked)]

(* getUnreadNotificationCount() *)

(* Every notification of the user counts, read or not. *)
UnreadCount_All(u) == Cardinality({r \in notifications : r.userId = u})

(* prisma.notification.count({where: {userId, read: false}}) *)
UnreadCount(u) == Cardinality({r \in notifications : r.userId = u /\ ~r.read})

(* An unauthenticated caller and a rejected count both get 0. *)
GetUnreadNotificationCount(c, u) ==
    /\ calls[c].pc = "idle"
    /\ UNCHANGED tables
    /\ \E fault \in BOOLEAN :
        LET call == Invoke("getUnreadNotificationCount", u) IN
        calls' = [calls EXCEPT ![c] =
            IF u = NoUser THEN Answer(call, 0)
            ELSE IF fault THEN Answer(Faulted(call), 0)
            ELSE Answer(call, UnreadCount(u))]

(* getPostComments(postId) *)
GetPostComments(c, p) ==
    /\ calls[c].pc = "idle"
    /\ UNCHANGED tables
    /\ \E fault \in BOOLEAN :
        LET call == [Invoke("getPostComments", NoUser) EXCEPT !.postId = p] IN
        calls' = [calls EXCEPT ![c] =
            IF fault THEN Done(Faulted(call), Throw(StoreError))
            ELSE Answer(call, NewestFirst({r \in comments : r.postId = p}))]

(* getPostLikes(postId): the users of the Like rows of the post.  Like rows *)
(* carry no creation time here, so the value is the set of the users.       *)
GetPostLikes(c, p) ==
    /\ calls[c].pc = "idle"
    /\ UNCHANGED tables
    /\ \E fault \in BOOLEAN :
        LET call == [Invoke("getPostLikes", NoUser) EXCEPT !.postId = p] IN
        calls' = [calls EXCEPT ![c] =
            IF fault THEN Done(Faulted(call), Throw(StoreError))
            ELSE Answer(call, {r.userId : r \in {q \in BagToSet(likes) : q.postId = p}})]

----------------------------------------------------------------------------
(* The response reaches the client: the invocation is over. *)

Respond(c) ==
    /\ calls[c].pc = "done"
    /\ calls' = [calls EXCEPT ![c] = Idle]
    /\ UNCHANGED tables

----------------------------------------------------------------------------
(* The like button of a Post, a FollowButton and the CommentsSection of    *)
(* the post, as one signed-in or anonymous viewer sees them.  A click runs *)
(* its handler up to the await:                                            *)
(* the request leaves the browser, the server receives it later (the       *)
(* first store access of the action), and the handler resumes when the     *)
(* call has returned or thrown.  Each handler keeps the values its click   *)
(* captured; `shown` is what the widget displayed when it was clicked.     *)

NoUi == [viewer |-> NoUser, post |-> 0, target |-> NoUser,
         isLiked |-> FALSE, likeCount |-> 0,
         isUserFollowing |-> FALSE, isSubmitting |-> FALSE,
         comments |-> <<>>, commentSubmitting |-> FALSE,
         feedPosts |-> <<>>, page |-> 0, isLoading |-> FALSE, error |-> FALSE,
         hasMore |-> FALSE, effect |-> FALSE, feedSlot |-> 0, retry |-> FALSE,
         handlers |-> {}, clicks |-> 0, errors |-> 0]

Shown == [isLiked |-> ui.isLiked, likeCount |-> ui.likeCount,
          isUserFollowing |-> ui.isUserFollowing, comments |-> ui.comments]

Handler(widget, op) ==
    [id |-> ui.clicks + 1, widget |-> widget, op |-> op, slot |-> 0,
     previousIsLiked |-> ui.isLiked, previousCount |-> ui.likeCount,
     previousFollowing |-> ui.isUserFollowing,
     content |-> NoContent, tempId |-> 0, shown |-> Shown]

(* A click is possible while the model has a slot left for its call. *)
CanClick == ui.clicks < MaxClicks /\ Cardinality(ui.handlers) < NumCalls

(* Post.handleLike, up to the await *)
HandleLike ==
    /\ ui.viewer # NoUser
    /\ CanClick
    /\ ui' = [ui EXCEPT
            !.isLiked = ~ui.isLiked,
            !.likeCount = IF ~ui.isLiked THEN ui.likeCount + 1 ELSE ui.likeCount - 1,
            !.clicks = @ + 1,
            !.handlers = @ \cup
                {Handler("like", IF ui.isLiked THEN "unlikePost" ELSE "likePost")}]
    /\ UNCHANGED <<tables, calls>>

(* FollowButton.handleFollowToggle, up to the await; the button is disabled *)
(* while isSubmitting.                                                      *)
HandleFollowToggle ==
    /\ ~ui.isSubmitting
    /\ CanClick
    /\ ui' = [ui EXCEPT
            !.isSubmitting = TRUE,
            !.isUserFollowing = ~ui.isUserFollowing,
            !.clicks = @ + 1,
            !.handlers = @ \cup
                {Handler("follow",
                         IF ui.isUserFollowing THEN "unfollowUser" ELSE "followUser")}]
    /\ UNCHANGED <<tables, calls>>

(* The server receives the request of handler h and serves it in slot c. *)
Received(h, c) ==
    /\ h \in ui.handlers /\ h.slot = 0
    /\ ui' = [ui EXCEPT !.handlers = (@ \ {h}) \cup {[h EXCEPT !.slot = c]}]

ReceiveLike(h, c) ==
    h.op = "likePost" /\ Received(h, c) /\ LikePostBegin(c, ui.viewer, ui.post)
ReceiveUnlike(h, c) ==
    h.op = "unlikePost" /\ Received(h, c) /\ UnlikePost(c, ui.viewer, ui.post)
ReceiveFollow(h, c) ==
    h.op = "followUser" /\ Received(h, c) /\ FollowUserBegin(c, ui.viewer, ui.target)
ReceiveUnfollow(h, c) ==
    h.op = "unfollowUser" /\ Received(h, c) /\ UnfollowUserBegin(c, ui.viewer, ui.target)

(* setIsLiked(!isLiked) of the closure of the click. *)
LikeCatch_StaleToggle(w, h) ==
    [w EXCEPT !.isLiked = ~h.previousIsLiked, !.likeCount = h.previousCount,
              !.errors = @ + 1]

(* Post.handleLike, catch: the captured values are displayed again. *)
LikeCatch(w, h) ==
    [w EXCEPT !.isLiked = h.previousIsLiked, !.likeCount = h.previousCount,
              !.errors = @ + 1]

(* FollowButton.handleFollowToggle, catch *)
FollowCatch(w, h) ==
    [w EXCEPT !.isUserFollowing = h.previousFollowing, !.errors = @ + 1]

(* The call of handler h is over: the handler resumes after its await.     *)
(* router.refresh() after a call that returned leaves the local state.     *)
Settled(h) ==
    /\ h \in ui.handlers /\ h.slot # 0
    /\ calls[h.slot].pc = "done"
    /\ calls' = [calls EXCEPT ![h.slot] = Idle]
    /\ UNCHANGED tables

LikeSettled(h) ==
    /\ h.widget = "like" /\ Settled(h)
    /\ ui' = [(IF calls[h.slot].result.kind = "throw" THEN LikeCatch(ui, h) ELSE ui)
                EXCEPT !.handlers = @ \ {h}]

(* finally: setIsSubmitting(false) *)
FollowSettled(h) ==
    /\ h.widget = "follow" /\ Settled(h)
    /\ ui' = [(IF calls[h.slot].result.kind = "throw" THEN FollowCatch(ui, h) ELSE ui)
                EXCEPT !.handlers = @ \ {h}, !.isSubmitting = FALSE]

(* CommentsSection.  The list holds comment rows; the optimistic entry has *)
(* the id `temp-${Date.now()}`, here a negative number that no other       *)
(* submission of the widget has: the clock has moved on when the form is   *)
(* enabled again.                                                          *)
IsTemp(e) == e.id < 0

(* the submit button: disabled={isSubmitting || !commentText.trim()} *)
SubmitDisabled_OnlyWhenEmpty(w, s) == Trim(s) = NoContent

SubmitDisabled(w, s) == w.commentSubmitting \/ Trim(s) = NoContent

OptimisticComment(s) == CommentRow(0 - (ui.clicks + 1), ui.post, ui.viewer, s)

(* CommentsSection.handleSubmitComment with the text s in the textarea, up *)
(* to the await; the form is rendered for a signed-in viewer.              *)
HandleSubmitComment(s) ==
    /\ ui.viewer # NoUser
    /\ ~SubmitDisabled(ui, s)
    /\ CanClick
    /\ ui' = [ui EXCEPT
            !.commentSubmitting = TRUE,
            !.comments = <<OptimisticComment(s)>> \o @,
            !.clicks = @ + 1,
            !.handlers = @ \cup
                {[Handler("comment", "createComment") EXCEPT
                    !.content = s, !.tempId = OptimisticComment(s).id]}]
    /\ UNCHANGED <<tables, calls>>

ReceiveComment(h, c) ==
    /\ h.op = "createComment" /\ Received(h, c)
    /\ CreateCommentBegin(c, ui.viewer, ui.post, h.content)

(* the comment createComment returned *)
NewComment(call) ==
    CommentRow(call.commentId, call.postId, call.caller, Trim(call.content))

(* prev.map(c => c.id === optimisticComment.id ? newComment : c) *)
CommentThen_Prepend(w, h, newComment) ==
    [w EXCEPT !.comments = <<newComment>> \o @]

CommentThen(w, h, newComment) ==
    [w EXCEPT !.comments =
        [i \in 1..Len(@) |-> IF @[i].id = h.tempId THEN newComment ELSE @[i]]]

(* catch: prev.filter(c => c.id !== optimisticComment.id) *)
CommentCatch(w, h) ==
    LET Others(e) == e.id # h.tempId IN
    [w EXCEPT !.comments = SelectSeq(@, Others), !.errors = @ + 1]

(* finally: setIsSubmitting(false) *)
CommentSettled(h) ==
    /\ h.widget = "comment" /\ Settled(h)
    /\ ui' = [(IF calls[h.slot].result.kind = "throw"
               THEN CommentCatch(ui, h)
               ELSE CommentThen(ui, h, NewComment(calls[h.slot])))
                EXCEPT !.handlers = @ \ {h}, !.commentSubmitting = FALSE]

----------------------------------------------------------------------------
(* Feed.  `effect` says that the effect of [page] is due: after the mount  *)
(* and after every change of page.  `error` is error !== null.  `retry`    *)
(* records that "Try Again" was clicked and no getFeedPosts call has been  *)
(* issued since.  The server serves the calls of the feed in slot 1.       *)

(* the page size Feed asks for: getFeedPosts(page, 10), scaled down *)
FeedLimit == 2

FeedSlot == 1

(* what Feed renders *)
ShowsLoading == ui.isLoading /\ ui.page = 1
ShowsError == ~ShowsLoading /\ ui.error
ShowsList == ~ShowsLoading /\ ~ui.error /\ Len(ui.feedPosts) > 0

(* useEffect(loadPosts, [page]) up to the await: the call is issued *)
FeedEffect ==
    /\ ui.effect
    /\ GetFeedPostsBegin(FeedSlot, ui.page, FeedLimit)
    /\ ui' = [ui EXCEPT
            !.effect = FALSE,
            !.isLoading = TRUE,
            !.error = FALSE,
            !.feedPosts = IF ui.page = 1 THEN <<>> ELSE @,
            !.feedSlot = FeedSlot,
            !.retry = FALSE]

(* page === 1 ? newPosts : [...prev, ...newPosts] *)
Loaded(prev, page, newPosts) == IF page = 1 THEN newPosts ELSE prev \o newPosts

(* loadPosts after the await: setPosts, setHasMore; finally *)
FeedLoaded ==
    /\ ui.feedSlot # 0
    /\ calls[ui.feedSlot].pc = "done"
    /\ calls[ui.feedSlot].result.kind = "return"
    /\ ui' = [ui EXCEPT
            !.feedPosts = Loaded(@, ui.page, calls[ui.feedSlot].value.posts),
            !.hasMore = calls[ui.feedSlot].value.hasMore,
            !.isLoading = FALSE,
            !.feedSlot = 0]
    /\ calls' = [calls EXCEPT ![ui.feedSlot] = Idle]
    /\ UNCHANGED tables

(* loadPosts, catch: setError(message); finally *)
FeedCatch ==
    /\ ui.feedSlot # 0
    /\ calls[ui.feedSlot].pc = "done"
    /\ calls[ui.feedSlot].result.kind = "throw"
    /\ ui' = [ui EXCEPT !.error = TRUE, !.isLoading = FALSE, !.feedSlot = 0]
    /\ calls' = [calls EXCEPT ![ui.feedSlot] = Idle]
    /\ UNCHANGED tables

(* "Load More", rendered under the list while hasMore, disabled while      *)
(* loading: handleLoadMore                                                 *)
HandleLoadMore ==
    /\ ShowsList /\ ui.hasMore
    /\ ~ui.isLoading /\ ui.hasMore
    /\ ui.page < MaxPage
    /\ ui' = [ui EXCEPT !.page = @ + 1, !.effect = TRUE]
    /\ UNCHANGED <<tables, calls>>

(* "Try Again" of the error panel: setPage(1).  A state set to the value  *)
(* it has renders nothing again and runs no effect.                       *)
TryAgain ==
    /\ ShowsError
    /\ ui' = [ui EXCEPT !.page = 1, !.effect = @ \/ ui.page # 1, !.retry = TRUE]
    /\ UNCHANGED <<tables, calls>>

----------------------------------------------------------------------------

Init ==
    /\ posts = {}
    /\ likes = EmptyBag
    /\ follows = EmptyBag
    /\ comments = {}
    /\ notifications = {}
    /\ nextId = [post |-> 0, comment |-> 0, notification |-> 0]
    /\ calls = [c \in Calls |-> Idle]
    /\ ui = NoUi

(* The next store access of an invocation in progress. *)
Step(c) ==
    \/ LikePostFindLike(c) /\ UNCHANGED ui
    \/ LikePostCreateLike(c) /\ UNCHANGED ui
    \/ LikePostFindNotification(c) /\ UNCHANGED ui
    \/ LikePostCreateNotification(c) /\ UNCHANGED ui
    \/ FollowUserFindFollow(c) /\ UNCHANGED ui
    \/ FollowUserCreateFollow(c) /\ UNCHANGED ui
    \/ FollowUserCreateNotification(c) /\ UNCHANGED ui
    \/ UnfollowUserFindUser(c) /\ UNCHANGED ui
    \/ CreateCommentCreate(c) /\ UNCHANGED ui
    \/ CreateCommentCreateNotification(c) /\ UNCHANGED ui
    \/ MarkNotificationAsReadUpdate(c) /\ UNCHANGED ui

(* Requests arrive one after the other: none starts before the previous one *)
(* has been answered, so one handler serves them all.                       *)
Sequential(c) == c = 1 /\ NoOtherCall

Next ==
    \/ \E c \in Calls, u \in Callers, s \in Contents :
            Sequential(c) /\ CreatePost(c, u, s) /\ UNCHANGED ui
    \/ \E c \in Calls, u \in Callers, p \in PostArgs :
            Sequential(c) /\ LikePostBegin(c, u, p) /\ UNCHANGED ui
    \/ \E c \in Calls, u \in Callers, p \in PostArgs :
            Sequential(c) /\ UnlikePost(c, u, p) /\ UNCHANGED ui
    \/ \E c \in Calls, u \in Callers, v \in UserArgs :
            Sequential(c) /\ FollowUserBegin(c, u, v) /\ UNCHANGED ui
    \/ \E c \in Calls, u \in Callers, v \in UserArgs :
            Sequential(c) /\ UnfollowUserBegin(c, u, v) /\ UNCHANGED ui
    \/ \E c \in Calls, u \in Callers, p \in PostArgs, s \in Contents :
            Sequential(c) /\ CreateCommentBegin(c, u, p, s) /\ UNCHANGED ui
    \/ \E c \in Calls, u \in Callers, n \in NotificationArgs :
            Sequential(c) /\ MarkNotificationAsReadBegin(c, u, n) /\ UNCHANGED ui
    \/ \E c \in Calls : Step(c)
    \/ \E c \in Calls : Respond(c) /\ UNCHANGED ui

Spec == Init /\ [][Next]_vars

(* Requests overlap: the store accesses of different invocations interleave. *)
(* The overlapping requests are the like and follow toggles.                  *)
BeginToggle(c) ==
    \/ \E u \in Callers, p \in PostArgs : LikePostBegin(c, u, p) /\ UNCHANGED ui
    \/ \E u \in Callers, p \in PostArgs : UnlikePost(c, u, p) /\ UNCHANGED ui
    \/ \E u \in Callers, v \in UserArgs : FollowUserBegin(c, u, v) /\ UNCHANGED ui

StepToggle(c) ==
    \/ LikePostFindLike(c) /\ UNCHANGED ui
    \/ LikePostCreateLike(c) /\ UNCHANGED ui
    \/ LikePostFindNotification(c) /\ UNCHANGED ui
    \/ LikePostCreateNotification(c) /\ UNCHANGED ui
    \/ FollowUserFindFollow(c) /\ UNCHANGED ui
    \/ FollowUserCreateFollow(c) /\ UNCHANGED ui
    \/ FollowUserCreateNotification(c) /\ UNCHANGED ui

NextConc ==
    \/ \E c \in Calls : BeginToggle(c)
    \/ \E c \in Calls : StepToggle(c)
    \/ \E c \in Calls : Respond(c) /\ UNCHANGED ui

(* They start from a store in which alice has published one post. *)
InitConc ==
    /\ posts = {PostRow(1, "alice", Content(0, 1, 0))}
    /\ likes = EmptyBag
    /\ follows = EmptyBag
    /\ comments = {}
    /\ notifications = {}
    /\ nextId = [post |-> 1, comment |-> 0, notification |-> 0]
    /\ calls = [c \in Calls |-> Idle]
    /\ ui = NoUi

SpecConc == InitConc /\ [][NextConc]_vars

(* Every mutation of the store by signed-in users, one request at a time,  *)
(* with one content for posts and comments.                                *)
NextAll ==
    \/ \E c \in Calls, u \in Users :
            Sequential(c) /\ CreatePost(c, u, Content(1, 1, 1)) /\ UNCHANGED ui
    \/ \E c \in Calls, u \in Users, p \in PostArgs :
            Sequential(c) /\ LikePostBegin(c, u, p) /\ UNCHANGED ui
    \/ \E c \in Calls, u \in Users, p \in PostArgs :
            Sequential(c) /\ UnlikePost(c, u, p) /\ UNCHANGED ui
    \/ \E c \in Calls, u \in Users, v \in UserArgs :
            Sequential(c) /\ FollowUserBegin(c, u, v) /\ UNCHANGED ui
    \/ \E c \in Calls, u \in Users, v \in UserArgs :
            Sequential(c) /\ UnfollowUserBegin(c, u, v) /\ UNCHANGED ui
    \/ \E c \in Calls, u \in Users, p \in PostArgs :
            Sequential(c) /\ CreateCommentBegin(c, u, p, Content(1, 1, 1)) /\ UNCHANGED ui
    \/ \E c \in Calls, u \in Users, n \in NotificationArgs :
            Sequential(c) /\ MarkNotificationAsReadBegin(c, u, n) /\ UNCHANGED ui
    \/ \E c \in Calls, u \in Users :
            Sequential(c) /\ MarkAllNotificationsAsRead(c, u) /\ UNCHANGED ui
    \/ \E c \in Calls, u \in Users, n \in NotificationArgs :
            Sequential(c) /\ DeleteNotificationBegin(c, u, n) /\ UNCHANGED ui
    \/ \E c \in Calls, u \in Users, p \in PostArgs :
            Sequential(c) /\ DeletePostBegin(c, u, p) /\ UNCHANGED ui
    \/ \E c \in Calls, u \in Users, k \in CommentArgs :
            Sequential(c) /\ DeleteCommentBegin(c, u, k) /\ UNCHANGED ui
    \/ \E c \in Calls : Step(c)
    \/ \E c \in Calls : DeleteNotificationDelete(c) /\ UNCHANGED ui
    \/ \E c \in Calls : DeletePostDelete(c) /\ UNCHANGED ui
    \/ \E c \in Calls : DeleteCommentDelete(c) /\ UNCHANGED ui
    \/ \E c \in Calls : Respond(c) /\ UNCHANGED ui

(* They start from a store in which bob has commented on the post of      *)
(* alice, who has not read the notification yet.                          *)
InitAll ==
    /\ posts = {PostRow(1, "alice", Content(0, 1, 0))}
    /\ likes = EmptyBag
    /\ follows = EmptyBag
    /\ comments = {CommentRow(1, 1, "bob", Content(0, 1, 0))}
    /\ notifications = {NotificationRow(1, "alice", "bob", "COMMENT", 1, 1)}
    /\ nextId = [post |-> 1, comment |-> 1, notification |-> 1]
    /\ calls = [c \in Calls |-> Idle]
    /\ ui = NoUi

SpecAll == InitAll /\ [][NextAll]_vars

(* The whole mutation interface, one request at a time: the requests of    *)
(* Next, markAllNotificationsAsRead, and the delete requests of a visitor  *)
(* who is not signed in.                                                   *)
NextVisitor ==
    \/ Next
    \/ \E c \in Calls, u \in Callers :
            Sequential(c) /\ MarkAllNotificationsAsRead(c, u) /\ UNCHANGED ui
    \/ \E c \in Calls, p \in PostArgs :
            Sequential(c) /\ DeletePostBegin(c, NoUser, p) /\ UNCHANGED ui
    \/ \E c \in Calls, k \in CommentArgs :
            Sequential(c) /\ DeleteCommentBegin(c, NoUser, k) /\ UNCHANGED ui
    \/ \E c \in Calls, n \in NotificationArgs :
            Sequential(c) /\ DeleteNotificationBegin(c, NoUser, n) /\ UNCHANGED ui

SpecVisitor == Init /\ [][NextVisitor]_vars

(* Publishing and removing content, one request at a time: posts, their    *)
(* comments and likes, the two delete operations and the two queries on a  *)
(* post's comments and likes.  Posts and comments have one content, which  *)
(* the actions trim.                                                       *)
NextContent ==
    \/ \E c \in Calls, u \in Callers :
            Sequential(c) /\ CreatePost(c, u, Content(1, 1, 1)) /\ UNCHANGED ui
    \/ \E c \in Calls, u \in Callers, p \in PostArgs :
            Sequential(c) /\ LikePostBegin(c, u, p) /\ UNCHANGED ui
    \/ \E c \in Calls, u \in Callers, p \in PostArgs :
            Sequential(c) /\ CreateCommentBegin(c, u, p, Content(1, 1, 1)) /\ UNCHANGED ui
    \/ \E c \in Calls, u \in Callers, p \in PostArgs :
            Sequential(c) /\ DeletePostBegin(c, u, p) /\ UNCHANGED ui
    \/ \E c \in Calls, u \in Callers, k \in CommentArgs :
            Sequential(c) /\ DeleteCommentBegin(c, u, k) /\ UNCHANGED ui
    \/ \E c \in Calls, p \in PostArgs :
            Sequential(c) /\ GetPostComments(c, p) /\ UNCHANGED ui
    \/ \E c \in Calls, p \in PostArgs :
            Sequential(c) /\ GetPostLikes(c, p) /\ UNCHANGED ui
    \/ \E c \in Calls : LikePostFindLike(c) /\ UNCHANGED ui
    \/ \E c \in Calls : LikePostCreateLike(c) /\ UNCHANGED ui
    \/ \E c \in Calls : LikePostFindNotification(c) /\ UNCHANGED ui
    \/ \E c \in Calls : LikePostCreateNotification(c) /\ UNCHANGED ui
    \/ \E c \in Calls : CreateCommentCreate(c) /\ UNCHANGED ui
    \/ \E c \in Calls : CreateCommentCreateNotification(c) /\ UNCHANGED ui
    \/ \E c \in Calls : DeletePostDelete(c) /\ UNCHANGED ui
    \/ \E c \in Calls : DeleteCommentDelete(c) /\ UNCHANGED ui
    \/ \E c \in Calls : Respond(c) /\ UNCHANGED ui

SpecContent == Init /\ [][NextContent]_vars

(* Publishing posts of every kind of content, one request at a time. *)
NextPublish ==
    \/ \E c \in Calls, u \in Callers, s \in PostContents :
            Sequential(c) /\ CreatePost(c, u, s) /\ UNCHANGED ui
    \/ \E c \in Calls : Respond(c) /\ UNCHANGED ui

SpecPublish == Init /\ [][NextPublish]_vars

(* Reading the feed while posts are published and deleted, one request at *)
(* a time.                                                                *)
NextFeed ==
    \/ \E c \in Calls, u \in Callers, s \in Contents :
            Sequential(c) /\ CreatePost(c, u, s) /\ UNCHANGED ui
    \/ \E c \in Calls, u \in Callers, p \in PostArgs :
            Sequential(c) /\ DeletePostBegin(c, u, p) /\ UNCHANGED ui
    \/ \E c \in Calls, page \in 1..MaxPage, limit \in 1..MaxLimit :
            Sequential(c) /\ GetFeedPostsBegin(c, page, limit) /\ UNCHANGED ui
    \/ \E c \in Calls : DeletePostDelete(c) /\ UNCHANGED ui
    \/ \E c \in Calls : GetFeedPostsCount(c) /\ UNCHANGED ui
    \/ \E c \in Calls : Respond(c) /\ UNCHANGED ui

SpecFeed == Init /\ [][NextFeed]_vars

(* Asking for suggestions, one request at a time, in a community whose   *)
(* members follow each other in any way: any set of Follows rows between *)
(* two different members, one row per ordered pair.                      *)
FollowGraphs ==
    SUBSET {FollowRow(u, v) : u \in Members, v \in Members} \
        {g \in SUBSET {FollowRow(u, v) : u \in Members, v \in Members} :
            \E r \in g : r.followerId = r.followingId}

InitSuggest ==
    /\ posts = {}
    /\ likes = EmptyBag
    /\ \E g \in FollowGraphs : follows = SetToBag(g)
    /\ comments = {}
    /\ notifications = {}
    /\ nextId = [post |-> 0, comment |-> 0, notification |-> 0]
    /\ calls = [c \in Calls |-> Idle]
    /\ ui = NoUi

NextSuggest ==
    \/ \E c \in Calls, u \in Members \cup {NoUser}, limit \in 1..MaxSuggestions :
            Sequential(c) /\ GetSuggestedUsersBegin(c, u, limit) /\ UNCHANGED ui
    \/ \E c \in Calls : GetSuggestedUsersFind(c) /\ UNCHANGED ui
    \/ \E c \in Calls : Respond(c) /\ UNCHANGED ui

SpecSuggest == InitSuggest /\ [][NextSuggest]_vars

(* The story of one like: a user publishes the first post, another user   *)
(* likes it, the author marks the notification read, the other user takes *)
(* the like back; anyone may ask for an unread count between two of these *)
(* requests.  A request is made when the story has reached its turn, and  *)
(* the story goes on while the calls return.                              *)
NoLikeYet == likes = EmptyBag /\ notifications = {}
Liked == likes # EmptyBag
Unread == \E n \in notifications : ~n.read
AllRead == notifications # {} /\ ~Unread

NextStory ==
    \/ \E c \in Calls, u \in Users, s \in PostContents :
            Sequential(c) /\ posts = {} /\ CreatePost(c, u, s) /\ UNCHANGED ui
    \/ \E c \in Calls, r \in posts, u \in Users :
            Sequential(c) /\ NoLikeYet /\ u # r.authorId /\ LikePostBegin(c, u, r.id) /\ UNCHANGED ui
    \/ \E c \in Calls, n \in notifications :
            Sequential(c) /\ Liked /\ Unread
                /\ MarkNotificationAsReadBegin(c, n.userId, n.id) /\ UNCHANGED ui
    \/ \E c \in Calls, r \in BagToSet(likes) :
            Sequential(c) /\ AllRead /\ UnlikePost(c, r.userId, r.postId) /\ UNCHANGED ui
    \/ \E c \in Calls, u \in Callers :
            Sequential(c) /\ GetUnreadNotificationCount(c, u) /\ UNCHANGED ui
    \/ \E c \in Calls : LikePostFindLike(c) /\ UNCHANGED ui
    \/ \E c \in Calls : LikePostCreateLike(c) /\ UNCHANGED ui
    \/ \E c \in Calls : LikePostFindNotification(c) /\ UNCHANGED ui
    \/ \E c \in Calls : LikePostCreateNotification(c) /\ UNCHANGED ui
    \/ \E c \in Calls : MarkNotificationAsReadUpdate(c) /\ UNCHANGED ui
    \/ \E c \in Calls : calls[c].result.kind = "return" /\ Respond(c) /\ UNCHANGED ui

SpecStory == Init /\ [][NextStory]_vars

(* A viewer in front of a post by alice and of a follow button, in a store *)
(* where the viewer may already like the post and follow the target.  The  *)
(* like button mounts with initialIsLiked, false unless the page passes    *)
(* the viewer's like, and with the post's like count; the follow button    *)
(* with the answer of isFollowing, or false when that check failed.        *)
InitWidget ==
    \E viewer \in Users, target \in UserArgs, liked \in BOOLEAN, following \in BOOLEAN,
       initialIsLiked \in BOOLEAN, checked \in BOOLEAN :
        /\ target # viewer => (following => target \in Users)
        /\ target = viewer => ~following
        /\ initialIsLiked => liked
        /\ posts = {PostRow(1, "alice", Content(0, 1, 0))}
        /\ likes = IF liked THEN SetToBag({LikeRow(viewer, 1)}) ELSE EmptyBag
        /\ follows = IF following THEN SetToBag({FollowRow(viewer, target)}) ELSE EmptyBag
        /\ comments = {}
        /\ notifications = {}
        /\ nextId = [post |-> 1, comment |-> 0, notification |-> 0]
        /\ calls = [c \in Calls |-> Idle]
        /\ ui = [NoUi EXCEPT !.viewer = viewer, !.post = 1, !.target = target,
                             !.isLiked = initialIsLiked,
                             !.likeCount = IF liked THEN 1 ELSE 0,
                             !.isUserFollowing = checked /\ following]

NextWidget ==
    \/ HandleLike
    \/ HandleFollowToggle
    \/ \E h \in ui.handlers, c \in Calls : ReceiveLike(h, c)
    \/ \E h \in ui.handlers, c \in Calls : ReceiveUnlike(h, c)
    \/ \E h \in ui.handlers, c \in Calls : ReceiveFollow(h, c)
    \/ \E h \in ui.handlers, c \in Calls : ReceiveUnfollow(h, c)
    \/ \E c \in Calls : StepToggle(c)
    \/ \E c \in Calls : UnfollowUserFindUser(c) /\ UNCHANGED ui
    \/ \E h \in ui.handlers : LikeSettled(h)
    \/ \E h \in ui.handlers : FollowSettled(h)

SpecWidget == InitWidget /\ [][NextWidget]_vars

(* The comment form of the post, alone on its page. *)
NextComments ==
    \/ \E s \in Contents : HandleSubmitComment(s)
    \/ \E h \in ui.handlers, c \in Calls : ReceiveComment(h, c)
    \/ \E c \in Calls : CreateCommentCreate(c) /\ UNCHANGED ui
    \/ \E c \in Calls : CreateCommentCreateNotification(c) /\ UNCHANGED ui
    \/ \E h \in ui.handlers : CommentSettled(h)

SpecComments == InitWidget /\ [][NextComments]_vars

(* The post page: the like button, the follow button for the other user   *)
(* and the comment form together, in front of a signed-in viewer who has   *)
(* neither liked the post nor followed that user yet.                      *)
InitPage ==
    \E viewer \in Users : \E target \in Users \ {viewer} :
        /\ posts = {PostRow(1, "alice", Content(0, 1, 0))}
        /\ likes = EmptyBag
        /\ follows = EmptyBag
        /\ comments = {}
        /\ notifications = {}
        /\ nextId = [post |-> 1, comment |-> 0, notification |-> 0]
        /\ calls = [c \in Calls |-> Idle]
        /\ ui = [NoUi EXCEPT !.viewer = viewer, !.post = 1, !.target = target]

NextPage ==
    \/ NextWidget
    \/ NextComments

SpecPage == InitPage /\ [][NextPage]_vars

(* The feed on a visitor's screen while the users publish and delete     *)
(* posts; their calls are served in the other slots.                     *)
InitFeedUi ==
    /\ posts = {}
    /\ likes = EmptyBag
    /\ follows = EmptyBag
    /\ comments = {}
    /\ notifications = {}
    /\ nextId = [post |-> 0, comment |-> 0, notification |-> 0]
    /\ calls = [c \in Calls |-> Idle]
    /\ ui = [NoUi EXCEPT !.page = 1, !.isLoading = TRUE, !.hasMore = TRUE,
                         !.effect = TRUE]

(* the steps of the feed that need no click *)
FeedRuns ==
    \/ FeedEffect
    \/ GetFeedPostsCount(FeedSlot) /\ UNCHANGED ui
    \/ FeedLoaded
    \/ FeedCatch

NextFeedUi ==
    \/ FeedRuns
    \/ HandleLoadMore
    \/ TryAgain
    \/ \E c \in Calls \ {FeedSlot} :
            CreatePost(c, "bob", Content(0, 1, 0)) /\ UNCHANGED ui
    \/ \E c \in Calls \ {FeedSlot}, u \in Users, p \in PostArgs :
            DeletePostBegin(c, u, p) /\ UNCHANGED ui
    \/ \E c \in Calls \ {FeedSlot} : DeletePostDelete(c) /\ UNCHANGED ui
    \/ \E c \in Calls \ {FeedSlot} : Respond(c) /\ UNCHANGED ui

SpecFeedUi == InitFeedUi /\ [][NextFeedUi]_vars

(* The browser runs a due effect and resumes loadPosts when its call is  *)
(* over, and the server finishes the call; nobody has to click.          *)
SpecFeedUiLive == SpecFeedUi /\ WF_vars(FeedRuns)

----------------------------------------------------------------------------
(* Properties *)

Finished(c, op) == calls[c].pc = "done" /\ calls[c].op = op
Threw(c) == calls[c].result.kind = "throw"
LikeNotifications(ns, r, a, p) ==
    {n \in ns : n.type = "LIKE" /\ n.userId = r /\ n.creatorId = a /\ n.postId = p}

C2_OneLikeNotificationPerTriple ==
    \A n \in notifications :
        n.type = "LIKE"
        => LikeNotifications(notifications, n.userId, n.creatorId, n.postId) = {n}

(* the second like of a like, unlike, like cycle has succeeded *)
C2_Witness ==
    \E c \in Calls :
        /\ Finished(c, "likePost")
        /\ calls[c].result = Return(TRUE, "like")
        /\ calls[c].author # calls[c].caller
        /\ LikeNotifications(calls[c].pre.notifications, calls[c].author,
                             calls[c].caller, calls[c].postId) # {}

(* C3 as stated: a successful likePost inserts exactly one unread LIKE      *)
(* notification for (author, liker, post), except when the liker is the     *)
(* author or an equivalent UNREAD notification exists; so after a           *)
(* successful like by a non-author an unread one exists.                    *)
C3_Original ==
    \A c \in Calls :
        (Finished(c, "likePost") /\ calls[c].result = Return(TRUE, "like"))
        => LET call == calls[c]
               inserted == notifications \ call.pre.notifications
               before == LikeNotifications(call.pre.notifications, call.author,
                                           call.caller, call.postId)
               now == LikeNotifications(notifications, call.author, call.caller,
                                        call.postId)
           IN  /\ call.pre.notifications \subseteq notifications
               /\ IF call.author = call.caller \/ (\E n \in before : ~n.read)
                  THEN inserted = {}
                  ELSE /\ Cardinality(inserted) = 1
                       /\ inserted \subseteq now
                       /\ \A n \in inserted : ~n.read /\ n.commentId = 0
               /\ call.author # call.caller => \E n \in now : ~n.read

(* C3 amended: the second exception is an equivalent LIKE notification,     *)
(* read or unread; after a successful like by a non-author a LIKE           *)
(* notification for (author, liker, post) exists, read or unread.           *)
C3_LikeNotifiesOnce ==
    \A c \in Calls :
        (Finished(c, "likePost") /\ calls[c].result = Return(TRUE, "like"))
        => LET call == calls[c]
               inserted == notifications \ call.pre.notifications
               before == LikeNotifications(call.pre.notifications, call.author,
                                           call.caller, call.postId)
               now == LikeNotifications(notifications, call.author, call.caller,
                                        call.postId)
           IN  /\ call.pre.notifications \subseteq notifications
               /\ IF call.author = call.caller \/ before # {}
                  THEN inserted = {}
                  ELSE /\ Cardinality(inserted) = 1
                       /\ inserted \subseteq now
                       /\ \A n \in inserted : ~n.read /\ n.commentId = 0
               /\ call.author # call.caller => now # {}

(* a successful like by a non-author has inserted its notification *)
C3_Witness ==
    \E c \in Calls :
        /\ Finished(c, "likePost")
        /\ calls[c].result = Return(TRUE, "like")
        /\ calls[c].author # calls[c].caller
        /\ Cardinality(notifications \ calls[c].pre.notifications) = 1

(* C4: no Notification row has its creator as its recipient; a like or a    *)
(* comment on one's own post inserts no Notification row.                   *)
C4_NoSelfNotification ==
    /\ \A n \in notifications : n.creatorId # n.userId
    /\ \A c \in Calls :
        ((Finished(c, "likePost") \/ Finished(c, "createComment"))
            /\ calls[c].author = calls[c].caller)
        => notifications = calls[c].pre.notifications

(* a comment on one's own post has been created while notifications exist *)
C4_Witness ==
    \E c \in Calls :
        /\ Finished(c, "createComment")
        /\ calls[c].result = Return(TRUE, "comment")
        /\ calls[c].author = calls[c].caller
        /\ notifications # {}

(* C5: two likePost calls (or two followUser calls) of one user for one     *)
(* target whose store accesses interleave both return, at least one of them *)
(* the no-op result, and leave exactly one row.                             *)
C5_ConcurrentDuplicateIsNoOp ==
    \A c \in Calls, d \in Calls :
        (/\ c # d
         /\ calls[c].pc = "done" /\ calls[d].pc = "done"
         /\ calls[c].op = calls[d].op
         /\ calls[c].caller = calls[d].caller
         /\ calls[c].caller \in Users
         /\ ~calls[c].faulted /\ ~calls[d].faulted)
        => /\ (/\ calls[c].op = "likePost"
               /\ calls[c].postId = calls[d].postId
               /\ \E r \in calls[c].pre.posts \cap calls[d].pre.posts :
                    r.id = calls[c].postId)
              => /\ ~Threw(c) /\ ~Threw(d)
                 /\ ~calls[c].result.success \/ ~calls[d].result.success
                 /\ CopiesIn(LikeRow(calls[c].caller, calls[c].postId), likes) = 1
           /\ (/\ calls[c].op = "followUser"
               /\ calls[c].userArg = calls[d].userArg
               /\ calls[c].userArg \in Users \ {calls[c].caller})
              => /\ ~Threw(c) /\ ~Threw(d)
                 /\ ~calls[c].result.success \/ ~calls[d].result.success
                 /\ CopiesIn(FollowRow(calls[c].caller, calls[c].userArg), follows) = 1

(* C6: a likePost, followUser or createComment that throws leaves the store *)
(* exactly as it found it.                                                  *)
C6_ThrowLeavesNoPartialState ==
    \A c \in Calls :
        (/\ calls[c].pc = "done"
         /\ calls[c].op \in {"likePost", "followUser", "createComment"}
         /\ Threw(c))
        => Store = calls[c].pre

(* C7: a mutation during which the store raised an error throws, with the   *)
(* store's message; for unlikePost and unfollowUser this is the failure of  *)
(* the delete while the row exists.                                         *)
C7_StoreErrorIsThrown ==
    \A c \in Calls :
        (/\ calls[c].pc = "done"
         /\ calls[c].faulted
         /\ calls[c].op = "unlikePost"
            => BagIn(LikeRow(calls[c].caller, calls[c].postId), calls[c].pre.likes)
         /\ calls[c].op = "unfollowUser"
            => BagIn(FollowRow(calls[c].caller, calls[c].userArg), calls[c].pre.follows))
        => calls[c].result = Throw(StoreError)

(* C8: unlikePost without a Like row and unfollowUser without a Follows row *)
(* by an authenticated user return the no-op result and change nothing in   *)
(* the store.                                                               *)
C8_UndoWithoutRowIsNoOp ==
    \A c \in Calls :
        /\ (/\ Finished(c, "unlikePost")
            /\ calls[c].caller \in Users
            /\ ~BagIn(LikeRow(calls[c].caller, calls[c].postId), calls[c].pre.likes))
           => /\ calls[c].result = Return(FALSE, "Post not liked")
              /\ Store = calls[c].pre
        /\ (/\ Finished(c, "unfollowUser")
            /\ calls[c].caller \in Users
            /\ ~BagIn(FollowRow(calls[c].caller, calls[c].userArg), calls[c].pre.follows))
           => /\ calls[c].result = Return(FALSE, "Not following user")
              /\ Store = calls[c].pre

(* an unlike of a post the caller does not like, other rows being present *)
C8_Witness ==
    \E c \in Calls :
        /\ Finished(c, "unlikePost")
        /\ calls[c].caller \in Users
        /\ ~BagIn(LikeRow(calls[c].caller, calls[c].postId), calls[c].pre.likes)
        /\ likes # EmptyBag

(* C9: the Follows table never holds two rows for one ordered pair; a       *)
(* followUser by a user who already follows the target inserts no Follows   *)
(* row and no Notification and, when the store answers, returns the no-op   *)
(* result.                                                                  *)
C9_DuplicateFollowIsNoOp ==
    /\ \A r \in BagToSet(follows) : CopiesIn(r, follows) = 1
    /\ \A c \in Calls :
        (Finished(c, "followUser")
            /\ BagIn(FollowRow(calls[c].caller, calls[c].userArg), calls[c].pre.follows))
        => /\ follows = calls[c].pre.follows
           /\ notifications = calls[c].pre.notifications
           /\ ~calls[c].faulted
              => calls[c].result = Return(FALSE, "Already following user")

C9_Witness ==
    \E c \in Calls :
        /\ Finished(c, "followUser")
        /\ BagIn(FollowRow(calls[c].caller, calls[c].userArg), calls[c].pre.follows)
        /\ calls[c].result = Return(FALSE, "Already following user")

(* C10: followUser of oneself throws and writes nothing, whatever Follows   *)
(* rows exist; no Follows row has followerId = followingId.                 *)
C10_NoSelfFollow ==
    /\ \A r \in BagToSet(follows) : r.followerId # r.followingId
    /\ \A c \in Calls :
        (Finished(c, "followUser") /\ calls[c].caller \in Users
            /\ calls[c].userArg = calls[c].caller)
        => /\ calls[c].result = Throw("You cannot follow yourself")
           /\ Store = calls[c].pre

(* a self-follow attempt by a user who follows and is followed *)
C10_Witness ==
    \E c \in Calls :
        /\ Finished(c, "followUser")
        /\ calls[c].userArg = calls[c].caller
        /\ \E r \in BagToSet(follows) : r.followerId = calls[c].caller
        /\ \E r \in BagToSet(follows) : r.followingId = calls[c].caller

----------------------------------------------------------------------------
(* The mutation operations, and the messages of the error they throw to a  *)
(* caller who is not signed in.                                            *)
Mutations ==
    {"createPost", "deletePost", "likePost", "unlikePost", "followUser",
     "unfollowUser", "createComment", "deleteComment", "markNotificationAsRead",
     "markAllNotificationsAsRead", "deleteNotification"}
MustBeLoggedIn ==
    {"Unauthorized: Must be logged in",
     "Unauthorized: Must be logged in to create post",
     "Unauthorized: Must be logged in to like",
     "Unauthorized: Must be logged in to follow",
     "Unauthorized: Must be logged in to comment"}

----------------------------------------------------------------------------
(* The post / comment a delete call names, as it was when the call began. *)
PostBefore(c) == {r \in calls[c].pre.posts : r.id = calls[c].postId}
CommentBefore(c) == {r \in calls[c].pre.comments : r.id = calls[c].commentId}
Succeeded(c) == calls[c].result.kind = "return" /\ calls[c].result.success

(* A signed-in caller who is not the author is refused: the call throws,   *)
(* with the ownership message when the store answered, and no table has    *)
(* changed.                                                                *)
NonAuthorIsRefused ==
    \A c \in Calls :
        /\ (Finished(c, "deletePost") /\ calls[c].caller # NoUser
                /\ \E r \in PostBefore(c) : r.authorId # calls[c].caller)
            => /\ Threw(c)
               /\ Store = calls[c].pre
               /\ ~calls[c].faulted => calls[c].result.message =
                        "Unauthorized: You can only delete your own posts"
        /\ (Finished(c, "deleteComment") /\ calls[c].caller # NoUser
                /\ \E r \in CommentBefore(c) : r.authorId # calls[c].caller)
            => /\ Threw(c)
               /\ Store = calls[c].pre
               /\ ~calls[c].faulted => calls[c].result.message =
                        "Unauthorized: You can only delete your own comments"

(* A step that removes a Post row completes a deletePost of that post by   *)
(* its author; a step that removes a Comment row completes a deleteComment *)
(* of it by its author or a deletePost of its post by the post's author.   *)
RemovedByAuthor ==
    /\ \A r \in posts \ posts' :
        \E c \in Calls :
            /\ calls'[c].pc = "done" /\ calls'[c].op = "deletePost"
            /\ calls'[c].postId = r.id /\ calls'[c].caller = r.authorId
    /\ \A r \in comments \ comments' :
        \E c \in Calls :
            /\ calls'[c].pc = "done"
            /\ \/ /\ calls'[c].op = "deleteComment"
                  /\ calls'[c].commentId = r.id /\ calls'[c].caller = r.authorId
               \/ /\ calls'[c].op = "deletePost"
                  /\ calls'[c].postId = r.postId
                  /\ \E q \in posts : q.id = r.postId /\ q.authorId = calls'[c].caller

(* C12: deletePost(P) and deleteComment(C) by an authenticated caller who  *)
(* is not the author throw the ownership error and leave the store as it   *)
(* was; a Post row is only ever removed by its author's deletePost, a      *)
(* Comment row by its author's deleteComment or by the cascade of the      *)
(* deletePost of the post's author.                                        *)
C12_OnlyAuthorDeletes == []NonAuthorIsRefused /\ [][RemovedByAuthor]_vars

C12_Witness ==
    \E c \in Calls :
        /\ Finished(c, "deleteComment")
        /\ \E r \in CommentBefore(c) : r.authorId \notin {calls[c].caller, NoUser}
        /\ calls[c].caller # NoUser
        /\ ~calls[c].faulted

----------------------------------------------------------------------------
(* C14: no Comment row and no Like row names a post that is not in the     *)
(* Post table, so none names a deleted post, in the state after the        *)
(* deletePost or in any later one (a post id is never handed out twice);   *)
(* after a successful deletePost(P) getPostComments(P) and getPostLikes(P) *)
(* that the store answers return empty lists.                              *)
C14_DeleteCascades ==
    /\ \A r \in posts : r.id <= nextId.post
    /\ \A r \in comments : PostExists(r.postId)
    /\ \A r \in BagToSet(likes) : PostExists(r.postId)
    /\ \A c \in Calls :
        /\ (Finished(c, "deletePost") /\ Succeeded(c))
            => /\ ~PostExists(calls[c].postId)
               /\ \A r \in comments : r.postId # calls[c].postId
               /\ \A r \in BagToSet(likes) : r.postId # calls[c].postId
        /\ (Finished(c, "getPostComments") /\ ~Threw(c) /\ ~PostExists(calls[c].postId))
            => calls[c].value = <<>>
        /\ (Finished(c, "getPostLikes") /\ ~Threw(c) /\ ~PostExists(calls[c].postId))
            => calls[c].value = {}

C14_Witness ==
    \E c \in Calls :
        /\ Finished(c, "deletePost") /\ Succeeded(c)
        /\ \E r \in calls[c].pre.comments : r.postId = calls[c].postId
        /\ \E r \in BagToSet(calls[c].pre.likes) : r.postId = calls[c].postId

----------------------------------------------------------------------------
----------------------------------------------------------------------------
(* The rank of a post in descending creation order: 1 for the newest. *)
Rank(r) == 1 + Cardinality({q \in posts : q.id > r.id})

(* C15: getFeedPosts(page, limit) with page >= 1 and limit >= 1 that the   *)
(* store answers returns at most `limit` posts, namely the posts of ranks  *)
(* (page-1)*limit + 1 .. page*limit in descending creation order, by rank; *)
(* total is the number of Post rows and hasMore holds exactly when         *)
(* page*limit < total.                                                     *)
C15_FeedPage ==
    \A c \in Calls :
        (Finished(c, "getFeedPosts") /\ ~Threw(c))
        => LET v == calls[c].value
               first == (calls[c].page - 1) * calls[c].limit + 1
               last == calls[c].page * calls[c].limit
           IN  /\ Len(v.posts) <= calls[c].limit
               /\ \A i \in 1..Len(v.posts) :
                    v.posts[i] \in posts /\ Rank(v.posts[i]) = first + i - 1
               /\ Len(v.posts) =
                    Cardinality({r \in posts : Rank(r) >= first /\ Rank(r) <= last})
               /\ v.total = Cardinality(posts)
               /\ v.hasMore <=> calls[c].page * calls[c].limit < v.total

C15_Witness ==
    \E c \in Calls :
        /\ Finished(c, "getFeedPosts") /\ ~Threw(c)
        /\ calls[c].page = 2 /\ calls[c].limit = 2
        /\ Len(calls[c].value.posts) = 1
        /\ calls[c].value.posts[1].id # 1

----------------------------------------------------------------------------
(* The users that u follows. *)
Following(u) == {r.followingId : r \in {q \in BagToSet(follows) : q.followerId = u}}

(* C16: getSuggestedUsers(limit) by an authenticated caller U that the     *)
(* store answers returns at most `limit` users; none is U, none is         *)
(* followed by U, and each is followed by a user whom U follows, so the    *)
(* list is empty when U follows nobody.                                    *)
C16_SuggestionsAreSecondDegree ==
    \A c \in Calls :
        (Finished(c, "getSuggestedUsers") /\ ~Threw(c) /\ calls[c].caller # NoUser)
        => LET U == calls[c].caller
               v == calls[c].value
           IN  /\ Cardinality(v) <= calls[c].limit
               /\ U \notin v
               /\ v \cap Following(U) = {}
               /\ \A x \in v : \E w \in Following(U) : x \in Following(w)
               /\ Following(U) = {} => v = {}

C16_Witness ==
    \E c \in Calls :
        /\ Finished(c, "getSuggestedUsers") /\ ~Threw(c) /\ calls[c].caller # NoUser
        /\ calls[c].limit = 1
        /\ Cardinality(calls[c].value) = 1
        /\ \E x \in Members \ calls[c].value :
            /\ x \notin Following(calls[c].caller) \cup {calls[c].caller}
            /\ \E w \in Following(calls[c].caller) : x \in Following(w)

----------------------------------------------------------------------------
(* The notification a call names, as it was when the call began. *)
NotificationBefore(c) == {r \in calls[c].pre.notifications : r.id = calls[c].notifId}

(* C17: markNotificationAsRead(n) by the recipient of n, when the store    *)
(* answers, succeeds and leaves n read and every other row as it was,      *)
(* whether n was unread or already read: called again on a read            *)
(* notification it succeeds again and the store stays as the first call    *)
(* left it.                                                                *)
C17_MarkReadIsIdempotent ==
    \A c \in Calls :
        \A r \in NotificationBefore(c) :
            (Finished(c, "markNotificationAsRead") /\ r.userId = calls[c].caller
                /\ ~calls[c].faulted)
            => /\ Succeeded(c)
               /\ Store = [calls[c].pre EXCEPT !.notifications =
                                (@ \ {r}) \cup {[r EXCEPT !.read = TRUE]}]
               /\ r.read => Store = calls[c].pre

C17_Witness ==
    \E c \in Calls :
        /\ Finished(c, "markNotificationAsRead") /\ Succeeded(c)
        /\ \E r \in NotificationBefore(c) : r.read /\ r.userId = calls[c].caller
        /\ NotificationById(calls[c].notifId).read

----------------------------------------------------------------------------
(* C19: unlikePost(P) by U changes nothing but the Like table, and of the  *)
(* Like table nothing but the row (U, P): a call that succeeds has removed *)
(* that row, which existed, and any other call has removed nothing.        *)
C19_UnlikeRemovesOneRow ==
    \A c \in Calls :
        Finished(c, "unlikePost")
        => LET row == LikeRow(calls[c].caller, calls[c].postId)
               pre == calls[c].pre
           IN  /\ posts = pre.posts
               /\ follows = pre.follows
               /\ comments = pre.comments
               /\ notifications = pre.notifications
               /\ IF Succeeded(c)
                  THEN BagIn(row, pre.likes) /\ likes = pre.likes (-) SetToBag({row})
                  ELSE likes = pre.likes
               /\ (BagIn(row, pre.likes) /\ ~calls[c].faulted) => Succeeded(c)

C19_Witness ==
    \E c \in Calls :
        /\ Finished(c, "unlikePost") /\ Succeeded(c)
        /\ \E r \in BagToSet(likes) : r.postId = calls[c].postId
        /\ \E n \in notifications :
            n.type = "LIKE" /\ n.creatorId = calls[c].caller /\ n.postId = calls[c].postId

----------------------------------------------------------------------------
(* C18: in the story of one like (A publishes a post, B # A likes it, A    *)
(* marks the notification read, B unlikes) an unread count that the store  *)
(* answers for A is 1 once the post is liked and nothing is read yet, and  *)
(* 0 at every other point of the story, in particular after the mark-read; *)
(* when the unlike has succeeded the Like row is gone and the LIKE         *)
(* notification of the like is still there, read.                          *)
C18_LikeStory ==
    \A c \in Calls :
        /\ (Finished(c, "getUnreadNotificationCount") /\ ~calls[c].faulted
                /\ \E r \in posts : r.authorId = calls[c].caller)
            => calls[c].value =
                    IF Liked /\ \A n \in notifications : ~n.read THEN 1 ELSE 0
        /\ (Finished(c, "likePost") /\ Succeeded(c)) => Liked /\ Unread
        /\ (Finished(c, "markNotificationAsRead") /\ Succeeded(c)) => Liked /\ AllRead
        /\ (Finished(c, "unlikePost") /\ Succeeded(c))
            => /\ ~BagIn(LikeRow(calls[c].caller, calls[c].postId), likes)
               /\ \E n \in notifications :
                    /\ n.type = "LIKE" /\ n.read
                    /\ n.creatorId = calls[c].caller /\ n.postId = calls[c].postId
                    /\ \E r \in posts : r.id = n.postId /\ r.authorId = n.userId

C18_Witness ==
    \E c \in Calls :
        /\ Finished(c, "getUnreadNotificationCount") /\ ~calls[c].faulted
        /\ \E r \in posts : r.authorId = calls[c].caller
        /\ calls[c].value = 0
        /\ likes = EmptyBag /\ AllRead

----------------------------------------------------------------------------
(* A step in which the handler of a click resumes after its call threw. *)
Caught(h) ==
    /\ h \in ui.handlers /\ h.slot # 0 /\ h \notin ui'.handlers
    /\ calls[h.slot].result.kind = "throw"

(* C20: when the call issued by a like-button or follow-button click       *)
(* throws, the handler puts back exactly the values the widget displayed   *)
(* when it was clicked (isLiked and likeCount; isUserFollowing) and issues *)
(* no call: no handler is added and no server action is started.           *)
C20_ThrowRevertsWithoutRetry ==
    [][\A h \in ui.handlers :
        Caught(h) =>
            /\ h.widget = "like" =>
                    /\ ui'.isLiked = h.shown.isLiked
                    /\ ui'.likeCount = h.shown.likeCount
            /\ h.widget = "follow" => ui'.isUserFollowing = h.shown.isUserFollowing
            /\ ui'.handlers = ui.handlers \ {h}
            /\ ui'.clicks = ui.clicks
            /\ \A c \in Calls : calls'[c] = calls[c] \/ calls'[c] = Idle]_vars

C20_Witness ==
    /\ ui.errors >= 2
    /\ ui.handlers = {}
    /\ ui.isLiked /\ ui.likeCount = 1

----------------------------------------------------------------------------
(* The handlers of one widget that wait for their call. *)
Pending(widget) == {h \in ui.handlers : h.widget = widget}

(* A step in which a click or a submission starts handler h. *)
Started(h) == h \in ui'.handlers /\ h.id \notin {g.id : g \in ui.handlers}

----------------------------------------------------------------------------
(* C22: no step changes a field of a Post or Comment row that stays in the *)
(* store (rows are inserted and deleted, a Like or Follows row being its   *)
(* key); of a Notification row that stays only `read` changes, and only    *)
(* from false to true.                                                     *)
C22_OnlyReadIsUpdated ==
    [][/\ \A r \in posts, s \in posts' : r.id = s.id => r = s
       /\ \A r \in comments, s \in comments' : r.id = s.id => r = s
       /\ \A n \in notifications, m \in notifications' :
            n.id = m.id => /\ [m EXCEPT !.read = n.read] = n
                           /\ n.read => m.read]_vars

(* a notification has been marked read a second time, by either action,   *)
(* next to a post and a comment that are still stored                      *)
C22_Witness ==
    \E c \in Calls :
        /\ calls[c].pc = "done"
        /\ calls[c].op \in {"markNotificationAsRead", "markAllNotificationsAsRead"}
        /\ calls[c].result.kind = "return"
        /\ \E n \in calls[c].pre.notifications : n.read /\ n \in notifications
        /\ posts # {} /\ comments # {}

----------------------------------------------------------------------------
(* The notification a markNotificationAsRead or deleteNotification call    *)
(* was asked for, as the call found it. *)
Asked(c) == {n \in calls[c].pre.notifications : n.id = calls[c].notifId}

(* A step that changes or removes the stored notification n is the step of *)
(* a call made by its recipient.                                           *)
TouchedByRecipient ==
    \A n \in notifications :
        n \notin notifications'
        => \E c \in Calls :
            /\ calls'[c].pc = "done" /\ calls[c].pc # "done"
            /\ calls'[c].caller = n.userId
            /\ calls'[c].op \in {"markNotificationAsRead",
                                 "markAllNotificationsAsRead", "deleteNotification"}

(* C23: markNotificationAsRead(n) and deleteNotification(n) by a signed-in *)
(* user who is not the recipient of n throw and leave the notifications as *)
(* they were; markAllNotificationsAsRead by U leaves the notifications of  *)
(* the other users as they were and marks those of U when it returns; a    *)
(* read flag is changed and a row removed only by a call of the recipient. *)
C23_OnlyRecipientTouchesNotification ==
    /\ [](\A c \in Calls :
            /\ (/\ calls[c].pc = "done"
                /\ calls[c].op \in {"markNotificationAsRead", "deleteNotification"}
                /\ calls[c].caller \in Users
                /\ \E n \in Asked(c) : n.userId # calls[c].caller)
               => /\ Threw(c)
                  /\ notifications = calls[c].pre.notifications
            /\ Finished(c, "markAllNotificationsAsRead")
               => /\ \A n \in calls[c].pre.notifications :
                        n.userId # calls[c].caller => n \in notifications
                  /\ ~Threw(c) =>
                        \A n \in notifications : n.userId = calls[c].caller => n.read)
    /\ [][TouchedByRecipient]_vars

(* bob was refused the deletion of a notification of alice, which is still *)
(* unread although bob has marked all of his own read                      *)
C23_Witness ==
    \E c \in Calls :
        /\ Finished(c, "deleteNotification")
        /\ calls[c].result = Throw("Unauthorized")
        /\ \E n \in Asked(c) : n.userId # calls[c].caller /\ ~n.read /\ n \in notifications
        /\ \E m \in notifications : m.userId = calls[c].caller /\ m.read

----------------------------------------------------------------------------
(* C24: in every state, also when the store accesses of likePost and       *)
(* unlikePost calls of one user for one post interleave, the Notification  *)
(* table holds at most one LIKE notification per (recipient, actor, post). *)
C24_OneLikeNotificationWhenInterleaved ==
    \A n \in notifications, m \in notifications :
        (/\ n.type = "LIKE" /\ m.type = "LIKE"
         /\ n.userId = m.userId /\ n.creatorId = m.creatorId /\ n.postId = m.postId)
        => n.id = m.id

----------------------------------------------------------------------------
(* The Like rows of the post on display. *)
LikesOfPost == {r \in BagToSet(likes) : r.postId = ui.post}

(* C25: the first click on the like button, the only mutation of the page, *)
(* on a widget mounted with the post's like count: once its call has       *)
(* returned without throwing, the button displays isLiked as the viewer's  *)
(* Like row exists and likeCount as the number of Like rows of the post,   *)
(* whether or not the viewer liked the post before the widget mounted.     *)
C25_LikeButtonAgreesWithStore ==
    \A h \in Pending("like") :
        (/\ ui.clicks = 1
         /\ h.slot # 0
         /\ calls[h.slot].pc = "done"
         /\ ~Threw(h.slot))
        => /\ ui.isLiked = BagIn(LikeRow(ui.viewer, ui.post), likes)
           /\ ui.likeCount = Cardinality(LikesOfPost)

----------------------------------------------------------------------------
(* The entries of the comment list that carry a temporary id. *)
TempEntries == {i \in 1..Len(ui.comments) : IsTemp(ui.comments[i])}

(* A step in which the handler of a click resumes after its call returned. *)
Returned(h) ==
    /\ h \in ui.handlers /\ h.slot # 0 /\ h \notin ui'.handlers
    /\ calls[h.slot].result.kind = "return"

----------------------------------------------------------------------------
(* C27: the like button is clicked twice, so that a likePost call and then *)
(* an unlikePost call are in flight together; once both have returned      *)
(* without throwing, the button displays isLiked as the viewer's Like row  *)
(* exists, in whichever order the server handled the two calls.            *)
C27_DoubleClickAgreesWithStore ==
    \A h \in Pending("like"), g \in Pending("like") :
        (/\ h.id < g.id
         /\ h.op = "likePost" /\ g.op = "unlikePost"
         /\ h.slot # 0 /\ g.slot # 0
         /\ calls[h.slot].pc = "done" /\ calls[g.slot].pc = "done"
         /\ ~Threw(h.slot) /\ ~Threw(g.slot))
        => ui.isLiked = BagIn(LikeRow(ui.viewer, ui.post), likes)

----------------------------------------------------------------------------
(* The notifications a finished call has inserted. *)
Inserted(c) == notifications \ calls[c].pre.notifications

(* C28: a followUser that returns success has inserted exactly one unread  *)
(* FOLLOW notification from the caller to the followee, and a createComment*)
(* by a non-author that returns has inserted exactly one unread COMMENT    *)
(* notification to the author for the new comment, whatever notifications  *)
(* existed: an earlier FOLLOW notification of the pair does not suppress   *)
(* the new one.  A call that returns the no-op result, or throws before    *)
(* its Follows or Comment row is inserted, inserts no notification.        *)
C28_FollowAndCommentNotify ==
    \A c \in Calls :
        LET call == calls[c] IN
        /\ (Finished(c, "followUser") \/ Finished(c, "createComment"))
           => call.pre.notifications \subseteq notifications
        /\ (Finished(c, "followUser") /\ call.result = Return(TRUE, "follow"))
           => /\ Cardinality(Inserted(c)) = 1
              /\ \A n \in Inserted(c) :
                    /\ n.type = "FOLLOW" /\ ~n.read
                    /\ n.userId = call.userArg /\ n.creatorId = call.caller
        /\ (Finished(c, "createComment") /\ ~Threw(c))
           => IF call.author = call.caller
              THEN Inserted(c) = {}
              ELSE /\ Cardinality(Inserted(c)) = 1
                   /\ \A n \in Inserted(c) :
                        /\ n.type = "COMMENT" /\ ~n.read
                        /\ n.userId = call.author /\ n.creatorId = call.caller
                        /\ n.postId = call.postId /\ n.commentId = call.commentId
                   /\ \E k \in comments \ call.pre.comments : k.id = call.commentId
        /\ (/\ Finished(c, "followUser")
            /\ (call.result = Return(FALSE, "Already following user")
                \/ (Threw(c) /\ follows = call.pre.follows)))
           => Inserted(c) = {}
        /\ (Finished(c, "createComment") /\ Threw(c) /\ comments = call.pre.comments)
           => Inserted(c) = {}

(* follow, unfollow, follow: the second follow has returned success and    *)
(* the followee holds two FOLLOW notifications from the caller             *)
C28_Witness ==
    \E c \in Calls :
        /\ Finished(c, "followUser")
        /\ calls[c].result = Return(TRUE, "follow")
        /\ Cardinality({n \in notifications :
                            /\ n.type = "FOLLOW"
                            /\ n.userId = calls[c].userArg
                            /\ n.creatorId = calls[c].caller}) = 2

----------------------------------------------------------------------------
(* C29: after "Try Again" is clicked on the error panel of the feed, a new *)
(* getFeedPosts call is eventually issued, whichever page failed to load,  *)
(* the first load of page 1 included.                                      *)
C29_TryAgainReloads == ui.retry ~> ui.feedSlot # 0

(* C30: the list of the feed, accumulated over "Load More" fetches, never  *)
(* holds the same post id twice, however createPost and deletePost calls   *)
(* of other users interleave with the fetches.                             *)
C30_FeedHasNoDuplicates ==
    \A i \in 1..Len(ui.feedPosts), j \in 1..Len(ui.feedPosts) :
        ui.feedPosts[i].id = ui.feedPosts[j].id => i = j

====
